---------------------------- MODULE Spec2Model ----------------------------
(***************************************************************************)
(* Recipe33: the planning state machine of src/App.tsx (React component    *)
(* App), its two gateways (src/services/geminiService.ts, localStorage)    *)
(* and its pure helpers, as a state machine.                               *)
(*                                                                         *)
(* One action per event handler.  An action is the handler followed by the *)
(* re-render it causes and by the effects (useEffect) of that render, in   *)
(* the order in which the component declares them.                         *)
(***************************************************************************)
EXTENDS Integers, Sequences, FiniteSets, TLC

(***************************************************************************)
(* Bounds of the model.                                                    *)
(***************************************************************************)
MaxCookbook == 2      \* entries the cookbook may hold
MaxPlans == 2         \* DayPlans the week plan may hold
MaxAnalyze == 2       \* analyze calls issued in one session
MaxRefine == 1        \* refine calls issued in one session
MaxEdits == 2         \* row edits, row deletes and title edits in one session
MaxNow == 4           \* largest reading of the clock (Date.now())
MaxDayOffset == 1     \* planner rows the user touches: offsets 0..MaxDayOffset
MaxWeekShift == 1     \* weeks the user navigates away from the initial week
MaxImages == 1        \* images the input buffer may hold
MaxChecked == 2       \* checked shopping-list items
MaxRows == 3          \* rows of an ingredient list given to calculateTotalMacros
MaxOverlap == 2       \* refine calls issued in a session whose calls overlap

(***************************************************************************)
(* Values.                                                                 *)
(***************************************************************************)
\* types.ts: enum AppState
HOME == "HOME"
COOKBOOK == "COOKBOOK"
CONFIG == "CONFIG"
INPUT == "INPUT"
ANALYZING == "ANALYZING"
RESULTS == "RESULTS"
SHOPPING_LIST == "SHOPPING_LIST"
ERROR == "ERROR"
RECIPE_SELECTOR == "RECIPE_SELECTOR"
AppStates ==
    {HOME, COOKBOOK, CONFIG, INPUT, ANALYZING, RESULTS, SHOPPING_LIST, ERROR,
     RECIPE_SELECTOR}

\* the three variation keys of RecipeAnalysis.variations
Tabs == {"Proteins", "Balanced", "Carbs"}

\* null, for each nullable piece of state
NoAnalysis == [none |-> TRUE]      \* analysis: RecipeAnalysis | null
NoId == 0                          \* selectedRecipeId: string | null
NoDate == -1                       \* selectingForDate: string | null
NoMsg == "null"                    \* errorMsg: string | null

Ing(amount, item, calories, protein, fat, carbs) ==
    [amount |-> amount, item |-> item, calories |-> calories,
     protein |-> protein, fat |-> fat, carbs |-> carbs]

Variation(ingredients, notes, steps) ==
    [ingredients |-> ingredients, notes |-> notes, steps |-> steps]

Step(text, timer) == [text |-> text, timer_seconds |-> timer]

Tofu == Ing("200g", "Tofu", 150, 20, 5, 3)
Rice == Ing("100g", "Rice", 130, 3, 0, 29)
Egg == Ing("2", "Egg", 140, 12, 10, 1)
Oats == Ing("80g", "Oats", 300, 10, 5, 54)

\* Two answers the gateway may give; they differ in every variation.
BowlAnalysis ==
    [title |-> "Tofu Bowl",
     original_macros |-> [calories |-> 600, protein |-> 25, fat |-> 20, carbs |-> 60],
     variations |->
        [Proteins |-> Variation(<<Tofu, Egg>>, "bowl-p", <<Step("fry", 300)>>),
         Balanced |-> Variation(<<Tofu, Rice>>, "bowl-b", <<Step("boil", 600)>>),
         Carbs |-> Variation(<<Rice>>, "bowl-c", <<Step("steam", 0)>>)]]

PorridgeAnalysis ==
    [title |-> "Porridge",
     original_macros |-> [calories |-> 400, protein |-> 12, fat |-> 8, carbs |-> 70],
     variations |->
        [Proteins |-> Variation(<<Egg, Oats>>, "por-p", <<Step("whisk", 0)>>),
         Balanced |-> Variation(<<Oats>>, "por-b", <<Step("simmer", 240)>>),
         Carbs |-> Variation(<<Oats, Rice>>, "por-c", <<Step("soak", 900)>>)]]

GatewayAnalyses == {BowlAnalysis, PorridgeAnalysis}

SavedRecipe(id, title, timestamp, an) ==
    [id |-> id, title |-> title, timestamp |-> timestamp, analysis |-> an]

DayPlan(date, recipeId, variation) ==
    [date |-> date, recipeId |-> recipeId, variation |-> variation]

\* App.tsx DEFAULT_SETTINGS
DEFAULT_SETTINGS ==
    [name |-> "Athlete", weight |-> 72, activityLevel |-> "active",
     targetCalories |-> 700, targetProtein |-> 40, targetCarbs |-> 50,
     inventory |-> [oven |-> FALSE, blender |-> FALSE, castIron |-> FALSE,
                    wok |-> FALSE, kitchenAid |-> FALSE, nonStickPan |-> FALSE,
                    airFryer |-> FALSE],
     excludedIngredients |-> ""]

(***************************************************************************)
(* Sequence helpers (Array.prototype.filter / find / map).                 *)
(***************************************************************************)
RECURSIVE FilterIdx(_, _, _)
\* s.filter((_, i) => i !== index), 1-based
FilterIdx(s, index, i) ==
    IF i > Len(s) THEN <<>>
    ELSE IF i = index THEN FilterIdx(s, index, i + 1)
    ELSE <<s[i]>> \o FilterIdx(s, index, i + 1)

Range(s) == {s[i] : i \in 1..Len(s)}

\* cookbook.find(r => r.id === id): the first match, or none
FindIdx(book, id) ==
    IF \E i \in 1..Len(book) : book[i].id = id
    THEN CHOOSE i \in 1..Len(book) :
            /\ book[i].id = id
            /\ \A j \in 1..(i - 1) : book[j].id # id
    ELSE 0

(***************************************************************************)
(* Dates.  A Date is an instant, counted in hours; day 0 is a Sunday, so   *)
(* the weekday of local day d is d % 7 as Date.getDay() counts it.         *)
(* A date key ("YYYY-MM-DD") is the number of its day: the keys are only   *)
(* compared, and ISO dates compare as their days do.                       *)
(***************************************************************************)
LocalDay(t, tz) == (t + tz) \div 24

\* getMonday(d): local midnight of the Monday of d's week
getMonday(t, tz) ==
    LET date == LocalDay(t, tz)
        day == date % 7
        diff == date - day + (IF day = 0 THEN -6 ELSE 1)
    IN  diff * 24 - tz

\* addDays(date, days): setDate keeps the local time of day
addDays(t, days) == t + 24 * days

\* formatDate(date): the date part of toISOString(), which is in UTC
formatDate(t) == t \div 24

(***************************************************************************)
(* State.                                                                  *)
(***************************************************************************)
VARIABLES
    phase,              \* "constructed" | "loaded" | "running": the mount
    store,              \* localStorage: four slots, each <<>> (absent) or <<value>>
    settings, appState, analysis, activeTab,
    currentIngredients, currentTitle,
    isLoading, isRefining, refineText, errorMsg,
    textInput, selectedImages,
    cookbook, weekPlan, currentWeekStart,
    shoppingView, checkedItems,
    selectedRecipeId, selectingForDate,
    analyzeCalls,       \* analyze calls awaiting the gateway: a set of call ids
    refineCalls,        \* refine calls awaiting the gateway, each with what its closure captured
    calls,              \* calls issued so far, [analyze, refine]
    edits,              \* edits typed so far: buffer rows, title, settings
    now,                \* the last reading of the clock (Date.now())
    tzOffset,           \* the local timezone, hours east of UTC
    lastOp,             \* the handler that ran last, [op, hit, arg]; "nav" for
                        \* a handler that only changes what is shown, "input"
                        \* for one that only takes text or images
    calc                \* argument and result of the pure function last applied

vars ==
    <<phase, store, settings, appState, analysis, activeTab, currentIngredients,
      currentTitle, isLoading, isRefining, refineText, errorMsg, textInput,
      selectedImages, cookbook, weekPlan, currentWeekStart, shoppingView,
      checkedItems, selectedRecipeId, selectingForDate, analyzeCalls,
      refineCalls, calls, edits, now, tzOffset, lastOp, calc>>

\* what the component's useState cells hold in the current render
State ==
    [settings |-> settings, appState |-> appState, analysis |-> analysis,
     activeTab |-> activeTab, currentIngredients |-> currentIngredients,
     currentTitle |-> currentTitle, isLoading |-> isLoading,
     isRefining |-> isRefining, refineText |-> refineText,
     errorMsg |-> errorMsg, textInput |-> textInput,
     selectedImages |-> selectedImages, cookbook |-> cookbook,
     weekPlan |-> weekPlan, currentWeekStart |-> currentWeekStart,
     shoppingView |-> shoppingView, checkedItems |-> checkedItems,
     selectedRecipeId |-> selectedRecipeId,
     selectingForDate |-> selectingForDate]

\* useState initial values
InitialState(weekStart) ==
    [settings |-> DEFAULT_SETTINGS, appState |-> HOME, analysis |-> NoAnalysis,
     activeTab |-> "Balanced", currentIngredients |-> <<>>,
     currentTitle |-> "", isLoading |-> FALSE, isRefining |-> FALSE,
     refineText |-> "", errorMsg |-> NoMsg, textInput |-> "",
     selectedImages |-> <<>>, cookbook |-> <<>>, weekPlan |-> <<>>,
     currentWeekStart |-> weekStart, shoppingView |-> "RECIPE",
     checkedItems |-> <<>>, selectedRecipeId |-> NoId,
     selectingForDate |-> NoDate]

\* hit and arg are the handler's own: see each handler
Op(name, hit, arg) == [op |-> name, hit |-> hit, arg |-> arg]

(***************************************************************************)
(* Effects.                                                                *)
(***************************************************************************)
\* (variant) the Results effect does not depend on the active tab
SyncBuffersNoTab(s, n, analysisSet) ==
    LET stateCh == n.appState # s.appState
        selCh == n.selectedRecipeId # s.selectedRecipeId
        tabCh == n.activeTab # s.activeTab
        k == FindIdx(n.cookbook, n.selectedRecipeId)
        buf0 == [ingredients |-> n.currentIngredients, title |-> n.currentTitle]
        buf1 ==
            IF /\ stateCh \/ analysisSet
               /\ n.appState = RESULTS
               /\ n.analysis # NoAnalysis
            THEN [ingredients |-> n.analysis.variations[n.activeTab].ingredients,
                  title |-> n.analysis.title]
            ELSE buf0
    IN  IF /\ tabCh \/ selCh \/ stateCh
           /\ n.appState = COOKBOOK
           /\ n.selectedRecipeId # NoId
           /\ k # 0
        THEN [ingredients |->
                  n.cookbook[k].analysis.variations[n.activeTab].ingredients,
              title |-> n.cookbook[k].title]
        ELSE buf1

\* The two buffer effects, run after a render in which s became n.
\* analysisSet: the handler stored a new analysis object.
\* Result: the buffers after the effects.
SyncBuffers(s, n, analysisSet) ==
    LET tabCh == n.activeTab # s.activeTab
        stateCh == n.appState # s.appState
        selCh == n.selectedRecipeId # s.selectedRecipeId
        k == FindIdx(n.cookbook, n.selectedRecipeId)
        buf0 == [ingredients |-> n.currentIngredients, title |-> n.currentTitle]
        buf1 ==
            IF /\ tabCh \/ stateCh \/ analysisSet
               /\ n.appState = RESULTS
               /\ n.analysis # NoAnalysis
            THEN [ingredients |-> n.analysis.variations[n.activeTab].ingredients,
                  title |-> n.analysis.title]
            ELSE buf0
    IN  IF /\ tabCh \/ selCh \/ stateCh
           /\ n.appState = COOKBOOK
           /\ n.selectedRecipeId # NoId
           /\ k # 0
        THEN [ingredients |->
                  n.cookbook[k].analysis.variations[n.activeTab].ingredients,
              title |-> n.cookbook[k].title]
        ELSE buf1

\* (variant) the save effect does not write the checked items
PersistNoChecks(n) ==
    [cookbook |-> <<n.cookbook>>, weekPlan |-> <<n.weekPlan>>,
     userSettings |-> <<n.settings>>, checkedItems |-> << <<>> >>]

\* The save effect: the four slots as JSON.stringify writes them.
Persist(n) ==
    [cookbook |-> <<n.cookbook>>, weekPlan |-> <<n.weekPlan>>,
     userSettings |-> <<n.settings>>, checkedItems |-> <<n.checkedItems>>]

\* A handler made the state n: the render, then the effects.
\* saved: the handler set the cookbook, the week plan, the settings or the
\* checked items.
Commit(n, analysisSet, saved) ==
    LET buf == SyncBuffers(State, n, analysisSet)
    IN  /\ settings' = n.settings
        /\ appState' = n.appState
        /\ analysis' = n.analysis
        /\ activeTab' = n.activeTab
        /\ currentIngredients' = buf.ingredients
        /\ currentTitle' = buf.title
        /\ isLoading' = n.isLoading
        /\ isRefining' = n.isRefining
        /\ refineText' = n.refineText
        /\ errorMsg' = n.errorMsg
        /\ textInput' = n.textInput
        /\ selectedImages' = n.selectedImages
        /\ cookbook' = n.cookbook
        /\ weekPlan' = n.weekPlan
        /\ currentWeekStart' = n.currentWeekStart
        /\ shoppingView' = n.shoppingView
        /\ checkedItems' = n.checkedItems
        /\ selectedRecipeId' = n.selectedRecipeId
        /\ selectingForDate' = n.selectingForDate
        /\ store' = IF saved THEN Persist(n) ELSE store
        /\ UNCHANGED <<phase, tzOffset, calc>>

\* A handler that does not call the gateway, edit the buffer or read the clock.
Plain == UNCHANGED <<analyzeCalls, refineCalls, calls, edits, now>>

Running == phase = "running"

(***************************************************************************)
(* Construction and mount.                                                 *)
(***************************************************************************)
\* the instant the session starts: a Wednesday, 09:00 UTC
Today == 24 * 10 + 9

\* the key of the Monday of the initial week in UTC
Monday0 == formatDate(getMonday(Today, 0))

\* What an earlier session may have left in localStorage.  Ids and timestamps
\* are readings of the clock in that session.
SavedBowl == SavedRecipe(1, "Tofu Bowl", 1, BowlAnalysis)
SavedPorridge == SavedRecipe(2, "Porridge", 2, PorridgeAnalysis)

\* an entry written before entries held an analysis
LegacyEntry == SavedRecipe(1, "Old", 1, NoAnalysis)

EmptyStore ==
    [cookbook |-> <<>>, weekPlan |-> <<>>, userSettings |-> <<>>,
     checkedItems |-> <<>>]

\* two recipes, one of them planned
BowlStore ==
    [cookbook |-> << <<SavedPorridge, SavedBowl>> >>,
     weekPlan |-> << <<DayPlan(Monday0, 1, "Proteins")>> >>,
     userSettings |-> <<DEFAULT_SETTINGS>>,
     checkedItems |-> << <<>> >>]

\* a legacy cookbook beside a week plan that refers to it
LegacyStore ==
    [cookbook |-> << <<LegacyEntry>> >>,
     weekPlan |-> << <<DayPlan(Monday0, 1, "Carbs")>> >>,
     userSettings |-> <<DEFAULT_SETTINGS>>,
     checkedItems |-> << <<>> >>]

\* what a session started from LegacyStore leaves after saving a recipe: the
\* plan still refers to the entry that the load dropped
DanglingStore ==
    [cookbook |-> << <<SavedPorridge>> >>,
     weekPlan |-> << <<DayPlan(Monday0, 1, "Carbs")>> >>,
     userSettings |-> <<DEFAULT_SETTINGS>>,
     checkedItems |-> << <<>> >>]

\* a cookbook whose second entry was written before entries held an analysis
MixedStore ==
    [cookbook |-> << <<SavedPorridge, LegacyEntry>> >>,
     weekPlan |-> << <<DayPlan(Monday0, 2, "Carbs")>> >>,
     userSettings |-> <<DEFAULT_SETTINGS>>,
     checkedItems |-> << <<>> >>]

\* the state after construction: every useState cell at its initial value
InitBase(stores, zones) ==
    /\ tzOffset \in zones
    /\ store \in stores
    /\ phase = "constructed"
    /\ settings = DEFAULT_SETTINGS
    /\ appState = HOME
    /\ analysis = NoAnalysis
    /\ activeTab = "Balanced"
    /\ currentIngredients = <<>>
    /\ currentTitle = ""
    /\ isLoading = FALSE
    /\ isRefining = FALSE
    /\ refineText = ""
    /\ errorMsg = NoMsg
    /\ textInput = ""
    /\ selectedImages = <<>>
    /\ cookbook = <<>>
    /\ weekPlan = <<>>
    /\ currentWeekStart = getMonday(Today, tzOffset)
    /\ shoppingView = "RECIPE"
    /\ checkedItems = <<>>
    /\ selectedRecipeId = NoId
    /\ selectingForDate = NoDate
    /\ analyzeCalls = {}
    /\ refineCalls = {}
    /\ calls = [analyze |-> 0, refine |-> 0]
    /\ edits = 0
    /\ now = 3
    /\ lastOp = Op("init", FALSE, <<>>)

\* the state after construction, no pure function applied
InitWith(stores, zones) ==
    /\ InitBase(stores, zones)
    /\ calc = [fn |-> "none"]

\* the cookbook the load effect sets, given the parsed slot
LoadedCookbook(parsed) ==
    IF Len(parsed) > 0 /\ parsed[1].analysis = NoAnalysis THEN <<>> ELSE parsed

\* The effects of the first commit: the load effect reads the four slots and
\* sets what it found; the save effect then writes the state of the first
\* render.  The state set by the load effect is rendered next.
MountEffects ==
    /\ phase = "constructed"
    /\ LET found == store # EmptyStore
       IN  /\ cookbook' = IF store.cookbook # <<>>
                          THEN LoadedCookbook(store.cookbook[1]) ELSE cookbook
           /\ weekPlan' = IF store.weekPlan # <<>>
                          THEN store.weekPlan[1] ELSE weekPlan
           /\ settings' = IF store.userSettings # <<>>
                          THEN store.userSettings[1] ELSE settings
           /\ checkedItems' = IF store.checkedItems # <<>>
                              THEN store.checkedItems[1] ELSE checkedItems
           /\ store' = Persist(State)
           /\ phase' = IF found THEN "loaded" ELSE "running"
           /\ lastOp' = Op("mount", found, <<>>)
    /\ UNCHANGED <<appState, analysis, activeTab, currentIngredients,
                   currentTitle, isLoading, isRefining, refineText, errorMsg,
                   textInput, selectedImages, currentWeekStart, shoppingView,
                   selectedRecipeId, selectingForDate, tzOffset, calc>>
    /\ Plain

\* The save effect of the render that shows the loaded state.
RerenderSave ==
    /\ phase = "loaded"
    /\ phase' = "running"
    /\ store' = Persist(State)
    /\ lastOp' = Op("rerender", FALSE, <<>>)
    /\ UNCHANGED <<settings, appState, analysis, activeTab, currentIngredients,
                   currentTitle, isLoading, isRefining, refineText, errorMsg,
                   textInput, selectedImages, cookbook, weekPlan,
                   currentWeekStart, shoppingView, checkedItems,
                   selectedRecipeId, selectingForDate, tzOffset, calc>>
    /\ Plain

\* the readings Date.now() may give after the reading last: the wall clock
\* is not strictly increasing, so the same millisecond or a later one
Readings(last) == {t \in {last, last + 1} : t <= MaxNow}

\* the id of the next gateway call
NextCall == calls.analyze + calls.refine + 1

(***************************************************************************)
(* Navigation.                                                             *)
(***************************************************************************)
\* renderBottomNav is shown in these states (App.tsx, last lines of App)
BottomNavShown ==
    appState \in {HOME, COOKBOOK, INPUT, CONFIG, SHOPPING_LIST}

\* a handler that only moves the view to state st
GoTo(st) ==
    /\ Commit([State EXCEPT !.appState = st], FALSE, FALSE)
    /\ lastOp' = Op("nav", FALSE, <<>>)
    /\ Plain

\* bottom nav, Planner
navPlanner == Running /\ BottomNavShown /\ GoTo(HOME)

\* bottom nav, +
navInput == Running /\ BottomNavShown /\ GoTo(INPUT)

\* bottom nav, Cookbook: back to the list when a detail is open
navCookbook ==
    /\ Running
    /\ BottomNavShown
    /\ LET sel == IF appState = COOKBOOK /\ selectedRecipeId # NoId
                  THEN NoId ELSE selectedRecipeId
       IN  Commit([State EXCEPT !.selectedRecipeId = sel, !.appState = COOKBOOK],
                  FALSE, FALSE)
    /\ lastOp' = Op("nav", FALSE, <<>>)
    /\ Plain

\* (variant) the Config button is part of the bottom nav
openConfigInNav == Running /\ BottomNavShown /\ GoTo(CONFIG)

\* header, Config: shown in every state
openConfig == Running /\ GoTo(CONFIG)

\* Config, Back to Planner
closeConfig == Running /\ appState = CONFIG /\ GoTo(HOME)

\* Planner, Shopping List
openShoppingList ==
    Running /\ appState = HOME /\ GoTo(SHOPPING_LIST)

\* Shopping list, Planner
closeShoppingList ==
    Running /\ appState = SHOPPING_LIST /\ GoTo(HOME)

\* Error, Try Again
tryAgain ==
    /\ Running
    /\ appState = ERROR
    /\ Commit([State EXCEPT !.appState = INPUT], FALSE, FALSE)
    /\ lastOp' = Op("tryAgain", FALSE, <<>>)
    /\ Plain

\* Results, close
closeResults ==
    /\ Running
    /\ appState = RESULTS
    /\ analysis # NoAnalysis
    /\ GoTo(INPUT)

\* Cookbook list or recipe selector with an empty cookbook: create a recipe
createRecipe ==
    /\ Running
    /\ \/ appState = COOKBOOK /\ selectedRecipeId = NoId
       \/ appState = RECIPE_SELECTOR
    /\ Len(cookbook) = 0
    /\ GoTo(INPUT)

changeWeek(direction) ==
    /\ Running
    /\ appState \in {HOME, SHOPPING_LIST}
    /\ LET days == IF direction = "next" THEN 7 ELSE -7
           to == addDays(currentWeekStart, days)
           home == getMonday(Today, tzOffset)
       IN  /\ to - home <= 24 * 7 * MaxWeekShift
           /\ home - to <= 24 * 7 * MaxWeekShift
           /\ Commit([State EXCEPT !.currentWeekStart = to], FALSE, FALSE)
    /\ lastOp' = Op("changeWeek", FALSE, <<direction>>)
    /\ Plain

(***************************************************************************)
(* Planner.                                                                *)
(***************************************************************************)
\* the date key of row i of renderPlanner
DateStr(i) == formatDate(addDays(currentWeekStart, i))

\* weekPlan.find(p => p.date === date): the first match, or none
FindPlan(plan, date) ==
    IF \E i \in 1..Len(plan) : plan[i].date = date
    THEN CHOOSE i \in 1..Len(plan) :
            /\ plan[i].date = date
            /\ \A j \in 1..(i - 1) : plan[j].date # date
    ELSE 0

\* the cookbook entry renderPlanner shows for a date, or none
AssignedRecipe(date) ==
    LET p == FindPlan(weekPlan, date)
    IN  IF p = 0 THEN 0 ELSE FindIdx(cookbook, weekPlan[p].recipeId)

\* (variant) the new plan is added without removing the date's old one
PlanWithNoFilter(prev, date, recipeId, variation) ==
    Append(prev, DayPlan(date, recipeId, variation))

\* (variant) a date that has a plan keeps it
PlanWithKeepOld(prev, date, recipeId, variation) ==
    IF \E i \in 1..Len(prev) : prev[i].date = date
    THEN prev
    ELSE Append(prev, DayPlan(date, recipeId, variation))

\* assignToDate: setWeekPlan(prev => [...prev.filter(other dates), newPlanItem])
PlanWith(prev, date, recipeId, variation) ==
    Append(SelectSeq(prev, LAMBDA p : p.date # date),
           DayPlan(date, recipeId, variation))

\* (variant) clearing a date clears the week
PlanWithoutAll(prev, date) == <<>>

\* clearDate: prev.filter(p => p.date !== date)
PlanWithout(prev, date) == SelectSeq(prev, LAMBDA p : p.date # date)

\* Planner row without a recipe: +
openSelector(i) ==
    /\ Running
    /\ appState = HOME
    /\ AssignedRecipe(DateStr(i)) = 0
    /\ Commit([State EXCEPT !.selectingForDate = DateStr(i),
                            !.appState = RECIPE_SELECTOR], FALSE, FALSE)
    /\ lastOp' = Op("openSelector", FindPlan(weekPlan, DateStr(i)) # 0, <<DateStr(i)>>)
    /\ Plain

\* Recipe selector, Cancel
cancelSelector ==
    /\ Running
    /\ appState = RECIPE_SELECTOR
    /\ Commit([State EXCEPT !.selectingForDate = NoDate, !.appState = HOME],
              FALSE, FALSE)
    /\ lastOp' = Op("nav", FALSE, <<>>)
    /\ Plain

\* Recipe selector, one of the three buttons of a cookbook entry
assignToDate(recipeId, variation) ==
    /\ Running
    /\ appState = RECIPE_SELECTOR
    /\ FindIdx(cookbook, recipeId) # 0
    /\ \/ FindPlan(weekPlan, selectingForDate) # 0
       \/ Len(weekPlan) < MaxPlans
    /\ IF selectingForDate = NoDate
       THEN Commit(State, FALSE, FALSE)
       ELSE Commit([State EXCEPT
                       !.weekPlan = PlanWith(weekPlan, selectingForDate,
                                             recipeId, variation),
                       !.selectingForDate = NoDate,
                       !.appState = HOME], FALSE, TRUE)
    \* hit: the date had a plan; arg: the handler's arguments
    /\ lastOp' = Op("assignToDate", FindPlan(weekPlan, selectingForDate) # 0,
                    <<recipeId, variation>>)
    /\ Plain

\* Planner row with a recipe: x
clearDate(date) ==
    /\ Running
    /\ appState = HOME
    /\ AssignedRecipe(date) # 0
    /\ Commit([State EXCEPT !.weekPlan = PlanWithout(weekPlan, date)],
              FALSE, TRUE)
    /\ lastOp' = Op("clearDate", FindPlan(weekPlan, date) # 0, <<date>>)
    /\ Plain

\* Planner row with a recipe: open it in the cookbook
openAssigned(i) ==
    /\ Running
    /\ appState = HOME
    /\ AssignedRecipe(DateStr(i)) # 0
    /\ LET plan == weekPlan[FindPlan(weekPlan, DateStr(i))]
       IN  Commit([State EXCEPT
                      !.selectedRecipeId = cookbook[AssignedRecipe(DateStr(i))].id,
                      !.activeTab = plan.variation,
                      !.appState = COOKBOOK], FALSE, FALSE)
    /\ lastOp' = Op("nav", FALSE, <<>>)
    /\ Plain

PlannerRows == 0..MaxDayOffset

(***************************************************************************)
(* The AI analysis gateway (services/geminiService.ts).                    *)
(***************************************************************************)
\* what the call inside the service's try block may fail with: an error
\* without a message, or the service's own "No response"
InnerErrors == {"", "No response from Gemini."}

\* throw new Error(error.message || fallback)
ServiceMessage(inner, fallback) == IF inner = "" THEN fallback ELSE inner

\* the messages analyzeRecipeWithGemini rejects with
AnalyzeErrors == {ServiceMessage(m, "Failed to analyze recipe.") : m \in InnerErrors}

\* the messages refineRecipeWithGemini rejects with
RefineErrors == {ServiceMessage(m, "Failed to refine recipe.") : m \in InnerErrors}

(***************************************************************************)
(* Input and analysis.                                                     *)
(***************************************************************************)
TextInputs == {"", "soup"}

\* Input, textarea
setTextInput(v) ==
    /\ Running
    /\ appState = INPUT
    /\ Commit([State EXCEPT !.textInput = v], FALSE, FALSE)
    /\ lastOp' = Op("input", FALSE, <<>>)
    /\ Plain

\* Input, file chooser: handleFileChange and the reader's onloadend, one file
handleFileChange ==
    /\ Running
    /\ appState = INPUT
    /\ Len(selectedImages) < MaxImages
    /\ Commit([State EXCEPT !.selectedImages = Append(selectedImages, "img")],
              FALSE, FALSE)
    /\ lastOp' = Op("input", FALSE, <<>>)
    /\ Plain

\* Input, thumbnail x
removeImage(index) ==
    /\ Running
    /\ appState = INPUT
    /\ index \in 1..Len(selectedImages)
    /\ Commit([State EXCEPT !.selectedImages = FilterIdx(selectedImages, index, 1)],
              FALSE, FALSE)
    /\ lastOp' = Op("input", FALSE, <<>>)
    /\ Plain

\* Input, Generate Intelligence: handleAnalyze up to its await.  The button is
\* disabled while there is neither text nor an image.
handleAnalyze ==
    /\ Running
    /\ appState = INPUT
    /\ ~(textInput = "" /\ Len(selectedImages) = 0)
    /\ calls.analyze < MaxAnalyze
    /\ Commit([State EXCEPT !.isLoading = TRUE, !.appState = ANALYZING,
                            !.errorMsg = NoMsg], FALSE, FALSE)
    /\ calls' = [calls EXCEPT !.analyze = @ + 1]
    /\ analyzeCalls' = analyzeCalls \cup {NextCall}
    /\ lastOp' = Op("handleAnalyze", TRUE, <<NextCall>>)
    /\ UNCHANGED <<refineCalls, edits, now>>

\* (variant) the tab is left as it was
AnalyzedKeepTab(s, result) ==
    [s EXCEPT !.analysis = result, !.appState = RESULTS, !.isLoading = FALSE]

\* (variant) a resolved call leaves the view where it is
AnalyzedKeepView(s, result) ==
    [s EXCEPT !.analysis = result, !.activeTab = "Balanced", !.isLoading = FALSE]

\* (variant) the first answer is kept
AnalyzedKeepFirst(s, result) ==
    IF s.analysis # NoAnalysis
    THEN [s EXCEPT !.appState = RESULTS, !.activeTab = "Balanced",
                   !.isLoading = FALSE]
    ELSE [s EXCEPT !.analysis = result, !.appState = RESULTS,
                   !.activeTab = "Balanced", !.isLoading = FALSE]

\* handleAnalyze after its await, the call having resolved with result
Analyzed(s, result) ==
    [s EXCEPT !.analysis = result, !.appState = RESULTS,
              !.activeTab = "Balanced", !.isLoading = FALSE]

\* (variant) a failed call drops the analysis held
AnalyzeFailedDrop(s, msg) ==
    [s EXCEPT !.errorMsg = msg, !.appState = ERROR, !.isLoading = FALSE,
              !.analysis = NoAnalysis]

\* (variant) a failed call shows the Error screen without its message
AnalyzeFailedNoMsg(s, msg) == [s EXCEPT !.appState = ERROR, !.isLoading = FALSE]

\* handleAnalyze after its await, the call having rejected with msg
AnalyzeFailed(s, msg) ==
    [s EXCEPT !.errorMsg = msg, !.appState = ERROR, !.isLoading = FALSE]

analyzeResolved(id, result) ==
    /\ id \in analyzeCalls
    /\ Commit(Analyzed(State, result), TRUE, FALSE)
    /\ analyzeCalls' = analyzeCalls \ {id}
    \* hit: another tab than Balanced was active
    /\ lastOp' = Op("analyzeResolved", activeTab # "Balanced", <<id, result>>)
    /\ UNCHANGED <<refineCalls, calls, edits, now>>

analyzeRejected(id, msg) ==
    /\ id \in analyzeCalls
    /\ Commit(AnalyzeFailed(State, msg), FALSE, FALSE)
    /\ analyzeCalls' = analyzeCalls \ {id}
    \* arg: the call, its message and the view the rejection arrived in
    /\ lastOp' = Op("analyzeRejected", FALSE, <<id, msg, appState>>)
    /\ UNCHANGED <<refineCalls, calls, edits, now>>

(***************************************************************************)
(* Results and cookbook detail: tabs, the edit buffer, save.                *)
(***************************************************************************)
\* renderResults shows the Results screen
ResultsShown == appState = RESULTS /\ analysis # NoAnalysis

\* renderCookbook shows the detail of the selected entry
DetailShown ==
    /\ appState = COOKBOOK
    /\ selectedRecipeId # NoId
    /\ FindIdx(cookbook, selectedRecipeId) # 0

\* renderCookbook shows the list
ListShown == appState = COOKBOOK /\ selectedRecipeId = NoId

\* Results or detail, one of the three tabs
setActiveTab(tab) ==
    /\ Running
    /\ ResultsShown \/ DetailShown
    /\ Commit([State EXCEPT !.activeTab = tab], FALSE, FALSE)
    \* hit: the tab changed
    /\ lastOp' = Op("setActiveTab", tab # activeTab, <<tab>>)
    /\ Plain

\* what the user may type into a cell: a field and the input's value
EditInputs == {<<"item", "Kale">>, <<"calories", "12">>}

TitleInputs == {"My Bowl"}

\* (variant) the edit is written to every row
RowsWithAll(rows, index, field, value) ==
    [i \in 1..Len(rows) |-> [rows[i] EXCEPT ![field] = value]]

\* handleIngredientChange: a copy with one field of row index replaced
RowsWith(rows, index, field, value) ==
    [rows EXCEPT ![index] = [rows[index] EXCEPT ![field] = value]]

\* (variant) the first row is removed
RowsWithoutFirst(rows, index) == FilterIdx(rows, 1, 1)

\* handleRemoveIngredient: currentIngredients.filter((_, i) => i !== index)
RowsWithout(rows, index) == FilterIdx(rows, index, 1)

handleIngredientChange(index, field, value) ==
    /\ Running
    /\ ResultsShown \/ DetailShown
    /\ index \in 1..Len(currentIngredients)
    /\ edits < MaxEdits
    /\ Commit([State EXCEPT !.currentIngredients =
                   RowsWith(currentIngredients, index, field, value)],
              FALSE, FALSE)
    /\ edits' = edits + 1
    /\ lastOp' = Op("handleIngredientChange", TRUE, <<index, field, value>>)
    /\ UNCHANGED <<analyzeCalls, refineCalls, calls, now>>

handleRemoveIngredient(index) ==
    /\ Running
    /\ ResultsShown \/ DetailShown
    /\ index \in 1..Len(currentIngredients)
    /\ edits < MaxEdits
    /\ Commit([State EXCEPT !.currentIngredients =
                   RowsWithout(currentIngredients, index)], FALSE, FALSE)
    /\ edits' = edits + 1
    /\ lastOp' = Op("handleRemoveIngredient", TRUE, <<index>>)
    /\ UNCHANGED <<analyzeCalls, refineCalls, calls, now>>

\* Results or detail, the title input
setCurrentTitle(v) ==
    /\ Running
    /\ ResultsShown \/ DetailShown
    /\ edits < MaxEdits
    /\ Commit([State EXCEPT !.currentTitle = v], FALSE, FALSE)
    /\ edits' = edits + 1
    /\ lastOp' = Op("setCurrentTitle", TRUE, <<v>>)
    /\ UNCHANGED <<analyzeCalls, refineCalls, calls, now>>

\* (variant) the analysis is saved as the gateway gave it
FinalAnalysisAsGiven(an, title, tab, rows) == an

\* (variant) the buffer is written to every variation
FinalAnalysisAllTabs(an, title, tab, rows) ==
    [an EXCEPT !.title = title,
               !.variations = [t \in Tabs |->
                                  [an.variations[t] EXCEPT !.ingredients = rows]]]

\* saveNewRecipe, finalAnalysis: the analysis with the title buffer and, in the
\* active variation, the ingredient buffer
FinalAnalysis(an, title, tab, rows) ==
    [an EXCEPT !.title = title,
               !.variations = [an.variations EXCEPT
                                  ![tab] = [an.variations[tab] EXCEPT
                                               !.ingredients = rows]]]

\* saveNewRecipe, newRecipe: id and timestamp are readings of the clock
NewRecipe(s, clock) ==
    SavedRecipe(clock, s.currentTitle, clock,
                FinalAnalysis(s.analysis, s.currentTitle, s.activeTab,
                              s.currentIngredients))

\* (variant) the new entry is put last
CookbookWithLast(prev, newRecipe) == Append(prev, newRecipe)

\* setCookbook(prev => [newRecipe, ...prev])
CookbookWith(prev, newRecipe) == <<newRecipe>> \o prev

\* Results, Add to Cookbook; t is what Date.now() reads
saveNewRecipe(t) ==
    /\ Running
    /\ ResultsShown
    /\ Len(cookbook) < MaxCookbook
    /\ IF analysis = NoAnalysis
       THEN Commit(State, FALSE, FALSE)
       ELSE Commit([State EXCEPT
                       !.cookbook = CookbookWith(cookbook, NewRecipe(State, t)),
                       !.textInput = "",
                       !.selectedImages = <<>>,
                       !.appState = COOKBOOK,
                       !.selectedRecipeId = t], FALSE, TRUE)
    /\ now' = t
    \* hit: the cookbook already held an entry with this id
    /\ lastOp' = Op("saveNewRecipe", FindIdx(cookbook, t) # 0, <<t>>)
    /\ UNCHANGED <<analyzeCalls, refineCalls, calls, edits>>

\* (variant) Save Changes stores the title and not the rows
UpdatedBookTitleOnly(prev, id, title, tab, rows) ==
    [i \in 1..Len(prev) |->
        IF prev[i].id = id
        THEN [prev[i] EXCEPT !.title = title, !.analysis.title = title]
        ELSE prev[i]]

\* updateExistingRecipe: prev.map, the entries with the selected id rewritten
UpdatedBook(prev, id, title, tab, rows) ==
    [i \in 1..Len(prev) |->
        IF prev[i].id = id
        THEN [prev[i] EXCEPT !.title = title,
                             !.analysis = FinalAnalysis(prev[i].analysis, title,
                                                        tab, rows)]
        ELSE prev[i]]

\* Cookbook detail, Save Changes
updateExistingRecipe ==
    /\ Running
    /\ DetailShown
    /\ IF selectedRecipeId = NoId
       THEN Commit(State, FALSE, FALSE)
       ELSE Commit([State EXCEPT !.cookbook =
                       UpdatedBook(cookbook, selectedRecipeId, currentTitle,
                                   activeTab, currentIngredients)], FALSE, TRUE)
    /\ lastOp' = Op("updateExistingRecipe", TRUE, <<selectedRecipeId>>)
    /\ Plain

\* Cookbook list, a card: the detail opens on Balanced
selectRecipe(id) ==
    /\ Running
    /\ ListShown
    /\ FindIdx(cookbook, id) # 0
    /\ Commit([State EXCEPT !.selectedRecipeId = id, !.activeTab = "Balanced"],
              FALSE, FALSE)
    /\ lastOp' = Op("nav", FALSE, <<>>)
    /\ Plain

\* Cookbook detail, Back
backToList ==
    /\ Running
    /\ DetailShown
    /\ Commit([State EXCEPT !.selectedRecipeId = NoId], FALSE, FALSE)
    /\ lastOp' = Op("nav", FALSE, <<>>)
    /\ Plain

(***************************************************************************)
(* Refinement.                                                             *)
(***************************************************************************)
RefineInputs == {" ", "spicy"}

\* String.prototype.trim, on the instructions the model types
Trim(text) == IF text = " " THEN "" ELSE text

\* renderRefinementInput, the text input
setRefineText(v) ==
    /\ Running
    /\ ResultsShown \/ DetailShown
    /\ Commit([State EXCEPT !.refineText = v], FALSE, FALSE)
    /\ lastOp' = Op("input", FALSE, <<>>)
    /\ Plain

\* handleRefine, baseAnalysis: the analysis shown, or none
BaseAnalysis(s) ==
    IF s.appState = RESULTS THEN s.analysis
    ELSE IF FindIdx(s.cookbook, s.selectedRecipeId) # 0
         THEN s.cookbook[FindIdx(s.cookbook, s.selectedRecipeId)].analysis
         ELSE NoAnalysis

\* handleRefine up to its await: the Enter key of the text input (which
\* the refining flag does not disable), or the button.  The call keeps the
\* appState and selectedRecipeId of the render that issued it.  max: the
\* calls of a session.
handleRefineUpTo(max) ==
    /\ Running
    /\ ResultsShown \/ DetailShown
    /\ LET issue == Trim(refineText) # "" /\ BaseAnalysis(State) # NoAnalysis
       IN  /\ issue => calls.refine < max
           /\ IF issue
              THEN /\ Commit([State EXCEPT !.isRefining = TRUE], FALSE, FALSE)
                   /\ calls' = [calls EXCEPT !.refine = @ + 1]
                   /\ refineCalls' = refineCalls \cup
                         {[id |-> NextCall, appState |-> appState,
                           selectedRecipeId |-> selectedRecipeId]}
              ELSE /\ Commit(State, FALSE, FALSE)
                   /\ UNCHANGED <<calls, refineCalls>>
           \* hit: a call was issued
           /\ lastOp' = Op("handleRefine", issue, <<>>)
    /\ UNCHANGED <<analyzeCalls, edits, now>>

\* handleRefine, at most MaxRefine calls in a session
handleRefine == handleRefineUpTo(MaxRefine)

\* (variant) the answer replaces the entry now selected
RefinedBookSelected(prev, id, result, sel) ==
    [i \in 1..Len(prev) |->
        IF prev[i].id = sel
        THEN [prev[i] EXCEPT !.analysis = result, !.title = result.title]
        ELSE prev[i]]

\* (variant) the answer replaces the analysis and leaves the entry's title
RefinedBookKeepTitle(prev, id, result, sel) ==
    [i \in 1..Len(prev) |->
        IF prev[i].id = id THEN [prev[i] EXCEPT !.analysis = result] ELSE prev[i]]

\* (variant) the refined entry gets another id
RefinedBookNewId(prev, id, result, sel) ==
    [i \in 1..Len(prev) |->
        IF prev[i].id = id
        THEN [prev[i] EXCEPT !.analysis = result, !.title = result.title,
                             !.id = prev[i].id + 1]
        ELSE prev[i]]

\* handleRefine, setCookbook(prev => prev.map(...)): id is the selection the
\* call captured, sel the selection at the time of the answer
RefinedBook(prev, id, result, sel) ==
    [i \in 1..Len(prev) |->
        IF prev[i].id = id
        THEN [prev[i] EXCEPT !.analysis = result, !.title = result.title]
        ELSE prev[i]]

\* (variant) the answer is stored wherever the call came from
RefinedAlways(s, call, result) ==
    [s EXCEPT !.analysis = result, !.refineText = "", !.isRefining = FALSE]

\* handleRefine after its await, the call having resolved with result
Refined(s, call, result) ==
    LET n == IF call.appState = RESULTS
             THEN [s EXCEPT !.analysis = result]
             ELSE IF call.appState = COOKBOOK /\ call.selectedRecipeId # NoId
                  THEN [s EXCEPT !.cookbook =
                           RefinedBook(s.cookbook, call.selectedRecipeId, result,
                                       s.selectedRecipeId)]
                  ELSE s
    IN  [n EXCEPT !.refineText = "", !.isRefining = FALSE]

\* (variant) a failed refinement leaves the instruction cleared and the flag set
RefineFailedKeepFlag(s, call, msg) == [s EXCEPT !.refineText = ""]

\* handleRefine after its await, the call having rejected: alert, finally
RefineFailed(s, call, msg) == [s EXCEPT !.isRefining = FALSE]

refineResolved(call, result) ==
    /\ call \in refineCalls
    /\ Commit(Refined(State, call, result), call.appState = RESULTS,
              call.appState = COOKBOOK /\ call.selectedRecipeId # NoId)
    /\ refineCalls' = refineCalls \ {call}
    \* hit: the call came from Results
    /\ lastOp' = Op("refineResolved", call.appState = RESULTS,
                    <<call.id, call.selectedRecipeId, result>>)
    /\ UNCHANGED <<analyzeCalls, calls, edits, now>>

refineRejected(call, msg) ==
    /\ call \in refineCalls
    /\ Commit(RefineFailed(State, call, msg), FALSE, FALSE)
    /\ refineCalls' = refineCalls \ {call}
    \* arg: the call and what alert() shows
    /\ lastOp' = Op("refineRejected", FALSE,
                    <<call.id, "Refinement failed: " \o msg>>)
    /\ UNCHANGED <<analyzeCalls, calls, edits, now>>

(***************************************************************************)
(* The shopping list (renderShoppingList, toggleCheck).                    *)
(***************************************************************************)
\* the place of a name among the ingredient names of the model as
\* localeCompare orders them
NameRank(n) ==
    LET names == <<"Egg", "Kale", "Oats", "Rice", "Tofu">>
    IN  CHOOSE r \in 1..Len(names) : names[r] = n

\* (variant) the id names the ingredient, not its index
ItemIdByName(plan, recipe, idx) ==
    <<plan.date, recipe.id,
      NameRank(recipe.analysis.variations[plan.variation].ingredients[idx + 1].item)>>

\* (variant) the id names the plan's date and the recipe only
ItemIdNoIndex(plan, recipe, idx) == <<plan.date, recipe.id, 0>>

\* `${plan.date}-${recipe.id}-${idx}`, idx counted from 0.  The date key has
\* a fixed width and a recipe id is a string of digits, so the string
\* determines the three parts; the id is kept as the three parts.
ItemId(plan, recipe, idx) == <<plan.date, recipe.id, idx>>

\* (variant) every plan from the start of the week on is active
ActivePlansFrom(plan, weekStart) ==
    SelectSeq(plan, LAMBDA q : q.date >= formatDate(weekStart) /\ q.recipeId # NoId)

\* weekPlan.filter(p => p.date >= startStr && p.date <= endStr && p.recipeId !== null)
ActivePlans(plan, weekStart) ==
    LET startStr == formatDate(weekStart)
        endStr == formatDate(addDays(weekStart, 6))
    IN  SelectSeq(plan, LAMBDA q : /\ q.date >= startStr
                                   /\ q.date <= endStr
                                   /\ q.recipeId # NoId)

\* the entries one plan contributes: none when its recipe is not found
PlanEntries(q, book) ==
    LET k == FindIdx(book, q.recipeId)
    IN  IF k = 0 THEN <<>>
        ELSE LET rows == book[k].analysis.variations[q.variation].ingredients
             IN  [i \in 1..Len(rows) |->
                     [date |-> q.date, title |-> book[k].title, item |-> rows[i],
                      id |-> ItemId(q, book[k], i - 1)]]

RECURSIVE Flatten(_, _)
\* plans.forEach(plan => ... push ...): the entries of the plans, in order
Flatten(plans, book) ==
    IF Len(plans) = 0 THEN <<>>
    ELSE PlanEntries(Head(plans), book) \o Flatten(Tail(plans), book)

\* renderShoppingList, allIngredients
AllIngredients(plan, book, weekStart) ==
    Flatten(ActivePlans(plan, weekStart), book)

RECURSIVE InsertSorted(_, _)
\* e placed behind every entry of the sorted s whose key is not greater
InsertSorted(s, e) ==
    IF Len(s) = 0 THEN <<e>>
    ELSE IF e.key < Head(s).key THEN <<e>> \o s
         ELSE <<Head(s)>> \o InsertSorted(Tail(s), e)

RECURSIVE SortKeyed(_)
\* Array.prototype.sort, which is stable, on entries [key, val]
SortKeyed(s) ==
    IF Len(s) = 0 THEN <<>>
    ELSE InsertSorted(SortKeyed(SubSeq(s, 1, Len(s) - 1)), s[Len(s)])

\* the values of s sorted by the keys the comparator compares, keys[i] the
\* key of s[i]
SortBy(s, keys) ==
    LET sorted == SortKeyed([i \in 1..Len(s) |-> [key |-> keys[i], val |-> s[i]]])
    IN  [i \in 1..Len(s) |-> sorted[i].val]

\* (variant) one line per ingredient name
AlphaSortedMerged(all) ==
    LET first(e) ==
            all[CHOOSE n \in 1..Len(all) :
                   /\ all[n].item.item = e.item.item
                   /\ \A m \in 1..(n - 1) : all[m].item.item # e.item.item]
        kept == SelectSeq(all, LAMBDA e : first(e) = e)
    IN  SortBy(kept, [i \in 1..Len(kept) |-> NameRank(kept[i].item.item)])

\* renderShoppingList, alphaSorted: what the A-Z view lists
AlphaSorted(all) ==
    SortBy(all, [i \in 1..Len(all) |-> NameRank(all[i].item.item)])

\* what the Recipe view lists: a card per active plan, by date, with the
\* rows of the planned variation
RecipeEntries(plan, book, weekStart) ==
    LET active == ActivePlans(plan, weekStart)
    IN  Flatten(SortBy(active, [i \in 1..Len(active) |-> active[i].date]), book)

\* the list of the current render
ShoppingList == AllIngredients(weekPlan, cookbook, currentWeekStart)

\* (variant) a toggle only checks
ToggledAddOnly(checked, id) ==
    IF id \in Range(checked) THEN checked ELSE Append(checked, id)

\* toggleCheck, newSet: a Set keeps the order of insertion
Toggled(checked, id) ==
    IF id \in Range(checked)
    THEN SelectSeq(checked, LAMBDA c : c # id)
    ELSE Append(checked, id)

\* checkedItems.has(id)
IsChecked(checked, id) == id \in Range(checked)

\* Shopping list, Recipe / A-Z
setShoppingView(v) ==
    /\ Running
    /\ appState = SHOPPING_LIST
    /\ Commit([State EXCEPT !.shoppingView = v], FALSE, FALSE)
    /\ lastOp' = Op("nav", FALSE, <<>>)
    /\ Plain

\* Shopping list, a line of either view
toggleCheck(id) ==
    /\ Running
    /\ appState = SHOPPING_LIST
    /\ \E n \in 1..Len(ShoppingList) : ShoppingList[n].id = id
    /\ ~IsChecked(checkedItems, id) => Len(checkedItems) < MaxChecked
    /\ Commit([State EXCEPT !.checkedItems = Toggled(checkedItems, id)],
              FALSE, TRUE)
    \* hit: the item was checked
    /\ lastOp' = Op("toggleCheck", IsChecked(checkedItems, id), id)
    /\ Plain

(***************************************************************************)
(* The planner on its own, in the week the session starts in: navigation,  *)
(* the recipe selector and the week plan, from every persisted store.      *)
(***************************************************************************)
InitPlan ==
    InitWith({EmptyStore, BowlStore, LegacyStore, DanglingStore}, {0})

NextPlan ==
    \/ MountEffects
    \/ RerenderSave
    \/ navPlanner
    \/ navCookbook
    \/ openConfig
    \/ closeConfig
    \/ openShoppingList
    \/ closeShoppingList
    \/ \E i \in PlannerRows : openSelector(i)
    \/ cancelSelector
    \/ \E k \in 1..Len(cookbook), v \in Tabs : assignToDate(cookbook[k].id, v)
    \/ \E i \in PlannerRows : clearDate(DateStr(i))
    \/ \E i \in PlannerRows : openAssigned(i)

SpecPlan == InitPlan /\ [][NextPlan]_vars

(***************************************************************************)
(* Input and analysis: the input buffers, calls that succeed and fail,     *)
(* several of them in flight, the Results tabs and one kind of edit.       *)
(***************************************************************************)
InitAnalyze == InitWith({EmptyStore, BowlStore}, {0})

NextAnalyze ==
    \/ MountEffects
    \/ RerenderSave
    \/ navInput
    \/ openConfig
    \/ \E v \in TextInputs : setTextInput(v)
    \/ handleFileChange
    \/ \E i \in 1..Len(selectedImages) : removeImage(i)
    \/ handleAnalyze
    \/ \E id \in analyzeCalls, r \in GatewayAnalyses : analyzeResolved(id, r)
    \/ \E id \in analyzeCalls, m \in AnalyzeErrors : analyzeRejected(id, m)
    \/ tryAgain
    \/ closeResults
    \/ \E t \in Tabs : setActiveTab(t)
    \/ \E i \in 1..Len(currentIngredients) : handleRemoveIngredient(i)

SpecAnalyze == InitAnalyze /\ [][NextAnalyze]_vars

(***************************************************************************)
(* The edit buffer of one analysis: tabs, row edits and deletes, the       *)
(* title, and saving to the cookbook.                                      *)
(***************************************************************************)
InitRecipe == InitWith({EmptyStore, BowlStore}, {0})

NextRecipe ==
    \/ MountEffects
    \/ RerenderSave
    \/ navInput
    \/ setTextInput("soup")
    \/ calls.analyze = 0 /\ handleAnalyze
    \/ \E id \in analyzeCalls, r \in GatewayAnalyses : analyzeResolved(id, r)
    \/ \E t \in Tabs : setActiveTab(t)
    \/ \E i \in 1..Len(currentIngredients), e \in EditInputs :
          handleIngredientChange(i, e[1], e[2])
    \/ \E i \in 1..Len(currentIngredients) : handleRemoveIngredient(i)
    \/ \E v \in TitleInputs : setCurrentTitle(v)
    \/ \E t \in Readings(now) : saveNewRecipe(t)

SpecRecipe == InitRecipe /\ [][NextRecipe]_vars

(***************************************************************************)
(* Refinement of one analysis and of the entries of a stored cookbook:     *)
(* from Results and from a cookbook entry, answered or failed while the    *)
(* user moves on.                                                          *)
(***************************************************************************)
InitRefine == InitWith({EmptyStore, BowlStore}, {0})

NextRefine ==
    \/ MountEffects
    \/ RerenderSave
    \/ navInput
    \/ navCookbook
    \/ closeResults
    \/ setTextInput("soup")
    \/ calls.analyze = 0 /\ handleAnalyze
    \/ \E id \in analyzeCalls, r \in GatewayAnalyses : analyzeResolved(id, r)
    \/ \E t \in Readings(now) : saveNewRecipe(t)
    \/ \E k \in 1..Len(cookbook) : selectRecipe(cookbook[k].id)
    \/ backToList
    \/ \E t \in Tabs : setActiveTab(t)
    \/ \E v \in RefineInputs : setRefineText(v)
    \/ handleRefine
    \/ \E c \in refineCalls, r \in GatewayAnalyses : refineResolved(c, r)
    \/ \E c \in refineCalls, m \in RefineErrors : refineRejected(c, m)

SpecRefine == InitRefine /\ [][NextRefine]_vars

(***************************************************************************)
(* Refinement of recipes saved in this session: several analyses, each     *)
(* saved with the clock reading of its save, then refined from the         *)
(* cookbook.                                                               *)
(***************************************************************************)
InitSaved == InitWith({EmptyStore}, {0})

NextSaved ==
    \/ MountEffects
    \/ navInput
    \/ navCookbook
    \/ setTextInput("soup")
    \/ handleAnalyze
    \/ \E id \in analyzeCalls, r \in GatewayAnalyses : analyzeResolved(id, r)
    \/ \E t \in Readings(now) : saveNewRecipe(t)
    \/ \E k \in 1..Len(cookbook) : selectRecipe(cookbook[k].id)
    \/ backToList
    \/ updateExistingRecipe
    \/ \E v \in RefineInputs : setRefineText(v)
    \/ handleRefine
    \/ \E c \in refineCalls, r \in GatewayAnalyses : refineResolved(c, r)

SpecSaved == InitSaved /\ [][NextSaved]_vars

(***************************************************************************)
(* The cookbook detail of a stored cookbook: tabs, the edit buffer and     *)
(* Save Changes.                                                           *)
(***************************************************************************)
InitBook == InitWith({BowlStore}, {0})

NextBook ==
    \/ MountEffects
    \/ RerenderSave
    \/ navCookbook
    \/ \E k \in 1..Len(cookbook) : selectRecipe(cookbook[k].id)
    \/ backToList
    \/ \E t \in Tabs : setActiveTab(t)
    \/ \E i \in 1..Len(currentIngredients), e \in EditInputs :
          handleIngredientChange(i, e[1], e[2])
    \/ \E i \in 1..Len(currentIngredients) : handleRemoveIngredient(i)
    \/ \E v \in TitleInputs : setCurrentTitle(v)
    \/ updateExistingRecipe

SpecBook == InitBook /\ [][NextBook]_vars

(***************************************************************************)
(* The titles of the cookbook: a recipe saved from Results, titles edited  *)
(* and saved in the detail, entries refined.                               *)
(***************************************************************************)
InitTitle == InitWith({EmptyStore, DanglingStore}, {0})

NextTitle ==
    \/ MountEffects
    \/ RerenderSave
    \/ navInput
    \/ navCookbook
    \/ setTextInput("soup")
    \/ calls.analyze = 0 /\ handleAnalyze
    \/ \E id \in analyzeCalls, r \in GatewayAnalyses : analyzeResolved(id, r)
    \/ \E t \in Readings(now) : saveNewRecipe(t)
    \/ \E k \in 1..Len(cookbook) : selectRecipe(cookbook[k].id)
    \/ backToList
    \/ \E v \in TitleInputs : setCurrentTitle(v)
    \/ updateExistingRecipe
    \/ setRefineText("spicy")
    \/ handleRefine
    \/ \E c \in refineCalls, r \in GatewayAnalyses : refineResolved(c, r)

SpecTitle == InitTitle /\ [][NextTitle]_vars

(***************************************************************************)
(* The shopping list: the week plan of a stored cookbook, assignments,     *)
(* week navigation and the two views.                                      *)
(***************************************************************************)
InitShop == InitWith({BowlStore, DanglingStore}, {0})

NextShop ==
    \/ MountEffects
    \/ RerenderSave
    \/ openShoppingList
    \/ closeShoppingList
    \/ \E d \in {"prev", "next"} : changeWeek(d)
    \/ \E v \in {"RECIPE", "ALPHA"} : setShoppingView(v)
    \/ \E i \in PlannerRows : openSelector(i)
    \/ \E k \in 1..Len(cookbook), v \in Tabs : assignToDate(cookbook[k].id, v)

SpecShop == InitShop /\ [][NextShop]_vars

(***************************************************************************)
(* Check marks and the rows of a planned recipe: items checked in the      *)
(* shopping list, rows deleted and saved in the cookbook detail.           *)
(***************************************************************************)
InitIndex == InitWith({BowlStore}, {0})

NextIndex ==
    \/ MountEffects
    \/ RerenderSave
    \/ navPlanner
    \/ navCookbook
    \/ openShoppingList
    \/ \E n \in 1..Len(ShoppingList) : toggleCheck(ShoppingList[n].id)
    \/ \E k \in 1..Len(cookbook) : selectRecipe(cookbook[k].id)
    \/ \E t \in Tabs : setActiveTab(t)
    \/ \E i \in 1..Len(currentIngredients) : handleRemoveIngredient(i)
    \/ updateExistingRecipe

SpecIndex == InitIndex /\ [][NextIndex]_vars

(***************************************************************************)
(* The week plan (C1 - C3), under SpecPlan.                                *)
(***************************************************************************)
OtherDates(plan, d) == SelectSeq(plan, LAMBDA p : p.date # d)

PlansFor(plan, d) == {i \in 1..Len(plan) : plan[i].date = d}

\* C1: in every reachable state the week plan holds at most one DayPlan for
\* any date.
C1_OnePlanPerDate ==
    \A i, j \in 1..Len(weekPlan) :
        weekPlan[i].date = weekPlan[j].date => i = j

\* C1 witness: an assignment has just replaced the plan of a date, beside the
\* plan of another date.
C1_Witness ==
    /\ lastOp.op = "assignToDate"
    /\ lastOp.hit
    /\ Len(weekPlan) = 2

\* C2: an assignment to the pending date d leaves exactly one plan for d, the
\* assigned (recipe, variation) - whatever d held before is gone -, leaves the
\* plans of all other dates as they were, clears the pending date and returns
\* to Home.
C2_AssignReplaces ==
    [][(lastOp'.op = "assignToDate" /\ selectingForDate # NoDate) =>
          LET d == selectingForDate
          IN  /\ Cardinality(PlansFor(weekPlan', d)) = 1
              /\ \A i \in PlansFor(weekPlan', d) :
                    weekPlan'[i] = DayPlan(d, lastOp'.arg[1], lastOp'.arg[2])
              /\ OtherDates(weekPlan', d) = OtherDates(weekPlan, d)
              /\ selectingForDate' = NoDate
              /\ appState' = HOME]_vars

\* C2 witness: the date held a plan for another recipe and variation, and now
\* holds the assigned one.
C2_Witness ==
    /\ lastOp.op = "assignToDate"
    /\ lastOp.hit
    /\ appState = HOME
    /\ \E i \in 1..Len(weekPlan) :
          /\ weekPlan[i].date = Monday0
          /\ weekPlan[i].recipeId = 2
          /\ weekPlan[i].variation = "Balanced"

\* C3: clearing date d leaves no plan for d and leaves the plans of the other
\* dates, the cookbook and the view (state, selection, pending date, active
\* variation, buffers) as they were.
C3_ClearRemoves ==
    [][lastOp'.op = "clearDate" =>
          LET d == lastOp'.arg[1]
          IN  /\ PlansFor(weekPlan', d) = {}
              /\ OtherDates(weekPlan', d) = OtherDates(weekPlan, d)
              /\ cookbook' = cookbook
              /\ <<appState, selectedRecipeId, selectingForDate, activeTab,
                   currentIngredients, currentTitle, analysis>>' =
                 <<appState, selectedRecipeId, selectingForDate, activeTab,
                   currentIngredients, currentTitle, analysis>>]_vars

\* C3 witness: a date was cleared while another date keeps its plan.
C3_Witness ==
    /\ lastOp.op = "clearDate"
    /\ lastOp.hit
    /\ Len(weekPlan) = 1
    /\ weekPlan[1].date # lastOp.arg[1]


(***************************************************************************)
(* The edit buffer (C4, C5), under SpecRecipe.                             *)
(***************************************************************************)
EditOps == {"handleIngredientChange", "handleRemoveIngredient", "setCurrentTitle"}

\* C4: saving a new recipe from Results while variation X is active: the
\* new entry, placed first, holds the ingredient buffer as its variation X and
\* the title buffer as its title, and its two other variations (ingredients,
\* notes, steps) are those of the analysis.
C4_SaveKeepsOthers ==
    [][lastOp'.op = "saveNewRecipe" =>
        LET X == activeTab
            r == cookbook'[1]
        IN  /\ Len(cookbook') = Len(cookbook) + 1
            /\ r.analysis.variations[X].ingredients = currentIngredients
            /\ r.title = currentTitle
            /\ r.analysis.title = currentTitle
            /\ \A Y \in Tabs \ {X} :
                  r.analysis.variations[Y] = analysis.variations[Y]]_vars

\* C4: a recipe was saved from Proteins after a row was deleted and the row
\* left was edited, the other two variations being the gateway's
C4_Witness ==
    /\ lastOp.op = "saveNewRecipe"
    /\ edits = 2
    /\ activeTab = "Proteins"
    /\ Len(cookbook[1].analysis.variations["Proteins"].ingredients) = 1
    /\ cookbook[1].analysis.variations["Proteins"].ingredients[1].item = "Kale"
    /\ cookbook[1].analysis.variations["Balanced"] =
          BowlAnalysis.variations["Balanced"]

\* C5: in Results, an edit leaves the analysis as it is, and a change of the
\* active variation loads the buffer with the ingredient list the analysis
\* holds for the variation switched to and with the analysis title; so
\* switching to Y and back to X leaves the buffer with X's stored list.
C5_TabRestores ==
    [][/\ (appState = RESULTS /\ lastOp'.op \in EditOps \cup {"setActiveTab"})
             => analysis' = analysis
       /\ (appState = RESULTS /\ lastOp'.op = "setActiveTab" /\ lastOp'.hit)
             => /\ activeTab' = lastOp'.arg[1]
                /\ currentIngredients' =
                      analysis.variations[activeTab'].ingredients
                /\ currentTitle' = analysis.title]_vars

\* C5: after two edits in Results the variation was switched and the buffer
\* holds the stored list
C5_Witness ==
    /\ lastOp.op = "setActiveTab"
    /\ lastOp.hit
    /\ appState = RESULTS
    /\ edits = 2
    /\ Len(cookbook) = 0
    /\ currentIngredients = analysis.variations[activeTab].ingredients

(***************************************************************************)
(* Refinement (C6, C8), under SpecRefine; (C7), under SpecSaved.           *)
(***************************************************************************)
\* the analysis the view shows in state s, or none
ShownAnalysis(s) ==
    IF s.appState = RESULTS THEN s.analysis
    ELSE IF s.appState = COOKBOOK /\ FindIdx(s.cookbook, s.selectedRecipeId) # 0
         THEN s.cookbook[FindIdx(s.cookbook, s.selectedRecipeId)].analysis
         ELSE NoAnalysis

\* C6: after a successful refine, when the view is still the Results it was
\* issued from, or still the cookbook entry it was issued from, the analysis
\* shown is the gateway's response and the buffer holds the response's title
\* and its ingredients of the active variation.
C6_RefineShowsResponse ==
    [][(/\ lastOp'.op = "refineResolved"
        /\ \/ lastOp'.hit /\ appState = RESULTS
           \/ /\ ~lastOp'.hit
              /\ appState = COOKBOOK
              /\ selectedRecipeId # NoId
              /\ selectedRecipeId = lastOp'.arg[2])
         => LET result == lastOp'.arg[3]
            IN  /\ ShownAnalysis([appState |-> appState', analysis |-> analysis',
                                  cookbook |-> cookbook',
                                  selectedRecipeId |-> selectedRecipeId']) = result
                /\ currentTitle' = result.title
                /\ currentIngredients' =
                      result.variations[activeTab'].ingredients]_vars

\* C7: a successful refine issued from cookbook entry X rewrites the analysis
\* and title of that entry only, in place, whatever is shown when the answer
\* arrives, and leaves the Results analysis; one issued from Results sets the
\* Results analysis and leaves the cookbook.
C7_RefineReplacesEntry ==
    [][lastOp'.op = "refineResolved" =>
        LET result == lastOp'.arg[3]
            k == FindIdx(cookbook, lastOp'.arg[2])
        IN  IF lastOp'.hit
            THEN analysis' = result /\ cookbook' = cookbook
            ELSE /\ analysis' = analysis
                 /\ cookbook' =
                       IF k = 0 THEN cookbook
                       ELSE [cookbook EXCEPT ![k] =
                               [@ EXCEPT !.analysis = result,
                                         !.title = result.title]]]_vars

\* the state variables a handler can set, but the refining flag
Kept ==
    <<settings, appState, analysis, activeTab, currentIngredients, currentTitle,
      isLoading, refineText, errorMsg, textInput, selectedImages, cookbook,
      weekPlan, currentWeekStart, shoppingView, checkedItems, selectedRecipeId,
      selectingForDate, store>>

\* C8: a failed refine leaves the analysis, the cookbook, the buffer, the
\* active variation and the view as they are, clears the refining flag and
\* issues no call; a refine whose instruction is empty once trimmed, or that
\* finds no base analysis, issues no call and changes nothing.
C8_RefineFailureKeeps ==
    [][/\ lastOp'.op = "refineRejected"
             => /\ Kept' = Kept
                /\ isRefining' = FALSE
                /\ calls' = calls
                /\ analyzeCalls' = analyzeCalls
                /\ refineCalls' \subseteq refineCalls
                /\ refineCalls' # refineCalls
       /\ (/\ lastOp'.op = "handleRefine"
           /\ Trim(refineText) = "" \/ BaseAnalysis(State) = NoAnalysis)
             => /\ Kept' = Kept
                /\ isRefining' = isRefining
                /\ calls' = calls
                /\ analyzeCalls' = analyzeCalls
                /\ refineCalls' = refineCalls]_vars

\* C8: a refine issued from a cookbook entry has failed with the service's
\* own message, the instruction still in place
C8_Witness ==
    /\ lastOp.op = "refineRejected"
    /\ lastOp.arg[2] = "Refinement failed: Failed to refine recipe."
    /\ DetailShown
    /\ refineText = "spicy"
    /\ ~isRefining
    /\ refineCalls = {}

(***************************************************************************)
(* Analysis (C9, C10), under SpecAnalyze.                                  *)
(***************************************************************************)
\* C9: when an analyze call succeeds the view is Results, the analysis is the
\* one returned, the active variation is Balanced and the buffer holds the
\* Balanced ingredients and the title of the analysis returned.
C9_AnalyzeSuccess ==
    [][lastOp'.op = "analyzeResolved" =>
        LET result == lastOp'.arg[2]
        IN  /\ appState' = RESULTS
            /\ analysis' = result
            /\ activeTab' = "Balanced"
            /\ currentIngredients' = result.variations["Balanced"].ingredients
            /\ currentTitle' = result.title
            /\ isLoading' = FALSE]_vars

\* C9: a second answer arrived while the Results of the first were shown on
\* another tab with a row deleted
C9_Witness ==
    /\ lastOp.op = "analyzeResolved"
    /\ lastOp.hit
    /\ calls.analyze = 2
    /\ edits > 0
    /\ analysis = PorridgeAnalysis
    /\ activeTab = "Balanced"
    /\ currentIngredients = <<Oats>>

\* C10: when an analyze call fails the view is Error with the message the
\* call failed with; the analysis held, the cookbook, the week plan, the text
\* and the images are as before and no call is issued; and Try Again, which
\* the Error view offers, leads to Input.
C10_AnalyzeFailure ==
    [][/\ lastOp'.op = "analyzeRejected"
             => /\ appState' = ERROR
                /\ errorMsg' = lastOp'.arg[2]
                /\ errorMsg' \in AnalyzeErrors
                /\ isLoading' = FALSE
                /\ UNCHANGED <<analysis, cookbook, weekPlan, textInput,
                               selectedImages, store>>
                /\ calls' = calls
                /\ refineCalls' = refineCalls
                /\ analyzeCalls' = analyzeCalls \ {lastOp'.arg[1]}
       /\ lastOp'.op = "tryAgain" => appState = ERROR /\ appState' = INPUT
       /\ (Running /\ appState = ERROR) => ENABLED tryAgain]_vars

\* C10: with an analysis held, a stored cookbook and week plan, text and an
\* image entered, a second call failed and the user went back to Input
C10_Witness ==
    /\ lastOp.op = "tryAgain"
    /\ appState = INPUT
    /\ errorMsg = "Failed to analyze recipe."
    /\ analysis = BowlAnalysis
    /\ Len(cookbook) = 2
    /\ Len(weekPlan) = 1
    /\ textInput = "soup"
    /\ Len(selectedImages) = 1


(***************************************************************************)
(* The cookbook (C11, C12), under SpecSaved.                               *)
(***************************************************************************)
\* C11: the ids of the cookbook entries are pairwise distinct, however many
\* recipes are saved and whatever the clock reads at each save.
C11_UniqueIds ==
    \A i, j \in 1..Len(cookbook) : cookbook[i].id = cookbook[j].id => i = j

\* C12: Save Changes on the entry shown, X, with variation V active, sets
\* the entry's title and its analysis title to the title buffer and the
\* ingredients of V to the ingredient buffer; the other two variations, the
\* notes and steps of V, the id, the timestamp and the place of X and every
\* other entry are as before.
C12_UpdateMergesBuffer ==
    [][lastOp'.op = "updateExistingRecipe" =>
        LET k == FindIdx(cookbook, selectedRecipeId)
            V == activeTab
        IN  /\ Len(cookbook') = Len(cookbook)
            /\ \A i \in 1..Len(cookbook) : i # k => cookbook'[i] = cookbook[i]
            /\ k # 0 =>
                  /\ cookbook'[k].id = cookbook[k].id
                  /\ cookbook'[k].timestamp = cookbook[k].timestamp
                  /\ cookbook'[k].title = currentTitle
                  /\ cookbook'[k].analysis.title = currentTitle
                  /\ cookbook'[k].analysis.original_macros =
                        cookbook[k].analysis.original_macros
                  /\ cookbook'[k].analysis.variations[V].ingredients =
                        currentIngredients
                  /\ cookbook'[k].analysis.variations[V].notes =
                        cookbook[k].analysis.variations[V].notes
                  /\ cookbook'[k].analysis.variations[V].steps =
                        cookbook[k].analysis.variations[V].steps
                  /\ \A Y \in Tabs \ {V} :
                        cookbook'[k].analysis.variations[Y] =
                           cookbook[k].analysis.variations[Y]]_vars


(***************************************************************************)
(* The cookbook detail (C13), under SpecBook; titles (C14), under SpecTitle.*)
(***************************************************************************)
\* the entry the detail shows
Shown == cookbook[FindIdx(cookbook, selectedRecipeId)]

\* C13: in a cookbook detail an edit changes no entry; Save Changes stores
\* the buffer as the active variation of the entry shown and keeps the
\* buffer; a change of the active variation loads the buffer with what the
\* entry stores for the variation switched to.  So after a save, switching to
\* Y and back to X shows the saved rows, and without one the stored rows.
C13_DetailPersistsBySave ==
    [][DetailShown =>
        /\ lastOp'.op \in EditOps \cup {"setActiveTab"} => cookbook' = cookbook
        /\ lastOp'.op = "updateExistingRecipe"
              => /\ Shown'.analysis.variations[activeTab].ingredients =
                       currentIngredients
                 /\ UNCHANGED <<currentIngredients, currentTitle, activeTab,
                                selectedRecipeId, appState>>
        /\ (lastOp'.op = "setActiveTab" /\ lastOp'.hit)
              => /\ activeTab' = lastOp'.arg[1]
                 /\ currentIngredients' =
                       Shown.analysis.variations[activeTab'].ingredients
                 /\ currentTitle' = Shown.title]_vars

\* C13: a stored entry was edited and saved on Proteins, and after a switch
\* back to Proteins the buffer shows the saved rows, which are not the rows
\* the entry had
C13_Witness ==
    /\ lastOp.op = "setActiveTab"
    /\ lastOp.hit
    /\ DetailShown
    /\ selectedRecipeId = 1
    /\ activeTab = "Proteins"
    /\ edits = 2
    /\ currentIngredients = Shown.analysis.variations["Proteins"].ingredients
    /\ Len(currentIngredients) = 1
    /\ currentIngredients[1].item = "Kale"

\* C14: the title of every cookbook entry is the title of its analysis.
C14_TitleMirrors ==
    \A i \in 1..Len(cookbook) : cookbook[i].title = cookbook[i].analysis.title

\* C14: a recipe was saved from Results, an entry holds an edited title and
\* an entry was refined
C14_Witness ==
    /\ lastOp.op = "refineResolved"
    /\ ~lastOp.hit
    /\ Len(cookbook) = 2
    /\ \E i \in 1..Len(cookbook) : cookbook[i].title = "My Bowl"
    /\ \E i \in 1..Len(cookbook) :
          cookbook[i].id = lastOp.arg[2] /\ cookbook[i].analysis = lastOp.arg[3]


(***************************************************************************)
(* The shopping list (C15, C16), under SpecShop.                           *)
(***************************************************************************)
\* the date keys of the seven days of the week viewed
WeekKeys == {DateStr(i) : i \in 0..6}

\* the rows of the variation plan q names, of the entry it refers to
PlannedRows(q) ==
    cookbook[FindIdx(cookbook, q.recipeId)].analysis.variations[q.variation].ingredients

\* the plans of the week viewed whose recipe is in the cookbook
Contributing ==
    {q \in Range(weekPlan) :
        q.date \in WeekKeys /\ FindIdx(cookbook, q.recipeId) # 0}

Count(seq, e) == Cardinality({n \in 1..Len(seq) : seq[n] = e})

\* C15: the shopping list holds exactly one entry for every row of the
\* planned variation of every plan of the week viewed whose recipe is in the
\* cookbook, with the plan's date, the recipe's title, the row and the id of
\* (date, recipe id, index), and nothing else: plans of other weeks and plans
\* whose recipe is not found add nothing, and rows of equal name stay apart.
C15_ListPerPlanRow ==
    LET L == ShoppingList
        E == UNION {{<<q, i>> : i \in 1..Len(PlannedRows(q))} : q \in Contributing}
    IN  /\ Len(L) = Cardinality(E)
        /\ \A e \in E :
              LET q == e[1]
                  i == e[2]
              IN  Cardinality({n \in 1..Len(L) :
                     /\ L[n].date = q.date
                     /\ L[n].id = <<q.date, q.recipeId, i - 1>>
                     /\ L[n].item = PlannedRows(q)[i]
                     /\ L[n].title = cookbook[FindIdx(cookbook, q.recipeId)].title})
                  = 1

\* C15: the list of a week with two planned recipes that both use an
\* ingredient of one name
C15_Witness ==
    /\ appState = SHOPPING_LIST
    /\ \E n, m \in 1..Len(ShoppingList) :
          /\ ShoppingList[n].item.item = ShoppingList[m].item.item
          /\ ShoppingList[n].id[2] # ShoppingList[m].id[2]
          /\ ShoppingList[n].date # ShoppingList[m].date

\* C16: the A-Z view and the Recipe view list the same entries, each as
\* often in the one as in the other.
C16_ViewsSameEntries ==
    LET alpha == AlphaSorted(ShoppingList)
        byDate == RecipeEntries(weekPlan, cookbook, currentWeekStart)
    IN  /\ Len(alpha) = Len(byDate)
        /\ \A e \in Range(alpha) \cup Range(byDate) :
              Count(alpha, e) = Count(byDate, e)

\* C16: the A-Z view of four lines, two of one name, in another order than
\* the Recipe view
C16_Witness ==
    /\ appState = SHOPPING_LIST
    /\ shoppingView = "ALPHA"
    /\ Len(ShoppingList) = 4
    /\ AlphaSorted(ShoppingList) #
          RecipeEntries(weekPlan, cookbook, currentWeekStart)
    /\ \E n, m \in 1..Len(ShoppingList) :
          n # m /\ ShoppingList[n].item.item = ShoppingList[m].item.item


(***************************************************************************)
(* Check marks (C17, C18), under SpecIndex.                                *)
(***************************************************************************)
\* every line of the list bears the id of its plan's date, its recipe's id
\* and the index of its row
TiedToIndex ==
    \A n \in 1..Len(ShoppingList) :
       \E q \in Contributing :
          \E i \in 1..Len(PlannedRows(q)) :
             /\ ShoppingList[n].item = PlannedRows(q)[i]
             /\ ShoppingList[n].id = <<q.date, q.recipeId, i - 1>>

\* the ids the list reports as checked
CheckedShown ==
    {ShoppingList[n].id : n \in
        {m \in 1..Len(ShoppingList) : IsChecked(checkedItems, ShoppingList[m].id)}}

\* C17: the id of a line is (date, recipe id, index of the row); so when the
\* item with id date-recipe-0 is checked and the row at index 0 of the
\* planned variation is deleted and the entry saved, the row that was at
\* index 1 bears the id ending in -0 and is reported as checked.
C17_CheckFollowsIndex ==
    [][/\ TiedToIndex'
       /\ lastOp'.op = "updateExistingRecipe" =>
             \A q \in Contributing :
                LET old == PlannedRows(q)
                    id0 == <<q.date, q.recipeId, 0>>
                IN  (/\ q.recipeId = selectedRecipeId
                     /\ q.variation = activeTab
                     /\ Len(old) >= 2
                     /\ currentIngredients = Tail(old)
                     /\ IsChecked(checkedItems, id0))
                    => \E n \in 1..Len(ShoppingList') :
                          /\ ShoppingList'[n].item = old[2]
                          /\ ShoppingList'[n].id = id0
                          /\ ShoppingList'[n].id \in CheckedShown']_vars

\* C17: both rows of the planned variation were checked, the first row was
\* deleted and the entry saved: the row left, Egg, has the id ending in -0
C17_Witness ==
    /\ lastOp.op = "updateExistingRecipe"
    /\ checkedItems = << <<Monday0, 1, 0>>, <<Monday0, 1, 1>> >>
    /\ Len(ShoppingList) = 1
    /\ ShoppingList[1].item = Egg
    /\ ShoppingList[1].id = <<Monday0, 1, 0>>
    /\ CheckedShown = {<<Monday0, 1, 0>>}

\* C18: a toggle flips the membership of its id in the checked items and
\* of no other id, a second toggle of the id gives the set back, and the
\* ids the list reports as checked change by that id only; a step that
\* leaves the week plan, the cookbook, the week and the checked items leaves
\* what the list reports.
C18_ToggleFlipsOne ==
    [][/\ lastOp'.op = "toggleCheck" =>
             LET id == lastOp'.arg
                 was == Range(checkedItems)
             IN  /\ (id \in Range(checkedItems')) = (id \notin was)
                 /\ Range(checkedItems') \ {id} = was \ {id}
                 /\ Range(Toggled(checkedItems', id)) = was
                 /\ CheckedShown' =
                       IF id \in was THEN CheckedShown \ {id}
                       ELSE CheckedShown \cup {id}
       /\ UNCHANGED <<weekPlan, cookbook, currentWeekStart, checkedItems>>
             => CheckedShown' = CheckedShown]_vars

\* C18: of two items checked one was toggled again
C18_Witness ==
    /\ lastOp.op = "toggleCheck"
    /\ lastOp.hit
    /\ Len(checkedItems) = 1
    /\ lastOp.arg \notin Range(checkedItems)
    /\ CheckedShown = Range(checkedItems)


(***************************************************************************)
(* Macro totals (C19).  A field of an ingredient is a JSON or input value: *)
(* a number, a string (its characters), null, or absent (undefined).       *)
(***************************************************************************)
NumberValue(n) == [t |-> "number", n |-> n]
StringValue(chars) == [t |-> "string", s |-> chars]
Undefined == [t |-> "undefined"]
Null == [t |-> "null"]

MacroFields == {"calories", "protein", "fat", "carbs"}

\* a Number: NaN or an integer
NaN == [nan |-> TRUE, n |-> 0]
Num(n) == [nan |-> FALSE, n |-> n]

WhiteSpace == {" "}

RECURSIVE TrimLeft(_)
TrimLeft(s) ==
    IF s # <<>> /\ Head(s) \in WhiteSpace THEN TrimLeft(Tail(s)) ELSE s

RECURSIVE TrimRight(_)
TrimRight(s) ==
    IF s # <<>> /\ s[Len(s)] \in WhiteSpace
    THEN TrimRight(SubSeq(s, 1, Len(s) - 1)) ELSE s

DigitValue ==
    ("0" :> 0) @@ ("1" :> 1) @@ ("2" :> 2) @@ ("3" :> 3) @@ ("4" :> 4) @@
    ("5" :> 5) @@ ("6" :> 6) @@ ("7" :> 7) @@ ("8" :> 8) @@ ("9" :> 9)

RECURSIVE DigitsValue(_, _)
DigitsValue(s, acc) ==
    IF s = <<>> THEN acc
    ELSE DigitsValue(Tail(s), 10 * acc + DigitValue[Head(s)])

\* Number(string): white space is trimmed, the empty string is 0, a signed
\* run of decimal digits is its value, anything else is NaN.  (Fractions,
\* exponents, hex literals and "Infinity" are not among the inputs.)
StringToNumber(s) ==
    LET t == TrimRight(TrimLeft(s))
        signed == t # <<>> /\ Head(t) \in {"+", "-"}
        d == IF signed THEN Tail(t) ELSE t
    IN  IF t = <<>> THEN Num(0)
        ELSE IF d = <<>> \/ \E i \in 1..Len(d) : d[i] \notin DOMAIN DigitValue
        THEN NaN
        ELSE IF Head(t) = "-" THEN Num(0 - DigitsValue(d, 0))
        ELSE Num(DigitsValue(d, 0))

\* (variant) only numbers count
ToNumberNoStrings(v) ==
    CASE v.t = "number" -> Num(v.n)
      [] v.t = "string" -> NaN
      [] v.t = "null" -> Num(0)
      [] v.t = "undefined" -> NaN

\* Number(v)
ToNumber(v) ==
    CASE v.t = "number" -> Num(v.n)
      [] v.t = "string" -> StringToNumber(v.s)
      [] v.t = "null" -> Num(0)
      [] v.t = "undefined" -> NaN

\* x || 0: NaN and 0 are falsy
OrZero(x) == IF x.nan \/ x.n = 0 THEN 0 ELSE x.n

ZeroMacros == [calories |-> 0, protein |-> 0, fat |-> 0, carbs |-> 0]

RECURSIVE Reduce(_, _)
\* ingredients.reduce((acc, curr) => ..., acc)
Reduce(ingredients, acc) ==
    IF ingredients = <<>> THEN acc
    ELSE LET curr == Head(ingredients)
         IN  Reduce(Tail(ingredients),
                    [calories |-> acc.calories + OrZero(ToNumber(curr.calories)),
                     protein |-> acc.protein + OrZero(ToNumber(curr.protein)),
                     fat |-> acc.fat + OrZero(ToNumber(curr.fat)),
                     carbs |-> acc.carbs + OrZero(ToNumber(curr.carbs))])

calculateTotalMacros(ingredients) == Reduce(ingredients, ZeroMacros)

MacroRow(calories, protein, fat, carbs) ==
    [calories |-> calories, protein |-> protein, fat |-> fat, carbs |-> carbs]

\* The rows the function is applied to: as the gateway gives them, as the
\* number inputs of the editor leave them ("12", "", "-3"), and as a store
\* written by hand may hold them.
MacroRows ==
    <<MacroRow(NumberValue(150), NumberValue(20), NumberValue(5), NumberValue(3)),
      MacroRow(StringValue(<<"1", "2">>), StringValue(<<>>),
               StringValue(<<" ", "7", " ">>), StringValue(<<"-", "3">>)),
      MacroRow(StringValue(<<"a", "b", "c">>), Undefined, Null,
               StringValue(<<"1", "2", "g">>)),
      MacroRow(NumberValue(0), NumberValue(0 - 4), StringValue(<<"+", "8">>),
               StringValue(<<"-">>)),
      MacroRow(NumberValue(140), NumberValue(12), NumberValue(10), NumberValue(1))>>

RECURSIVE SeqsUpTo(_, _)
\* the sequences over S of length at most n
SeqsUpTo(S, n) ==
    IF n = 0 THEN {<<>>}
    ELSE LET shorter == SeqsUpTo(S, n - 1)
         IN  shorter \cup {Append(s, e) : s \in shorter, e \in S}

MacroInputs == SeqsUpTo(Range(MacroRows), MaxRows)

\* The render applies calculateTotalMacros to the rows it is given.
applyCalculateTotalMacros ==
    /\ calc.fn = "none"
    /\ calc' = [fn |-> "calculateTotalMacros", arg |-> calc.arg,
                result |-> calculateTotalMacros(calc.arg)]
    /\ lastOp' = Op("calculateTotalMacros", calc.arg # <<>>, <<>>)
    /\ UNCHANGED <<phase, store, settings, appState, analysis, activeTab,
                   currentIngredients, currentTitle, isLoading, isRefining,
                   refineText, errorMsg, textInput, selectedImages, cookbook,
                   weekPlan, currentWeekStart, shoppingView, checkedItems,
                   selectedRecipeId, selectingForDate, tzOffset>>
    /\ Plain

InitMacros ==
    /\ InitBase({EmptyStore}, {0})
    /\ \E rows \in MacroInputs : calc = [fn |-> "none", arg |-> rows]

NextMacros == applyCalculateTotalMacros

SpecMacros == InitMacros /\ [][NextMacros]_vars

\* what the fields of each of MacroRows denote, a field that is no numeral
\* or is missing as 0
Denoted ==
    <<MacroRow(150, 20, 5, 3),
      MacroRow(12, 0, 7, 0 - 3),
      MacroRow(0, 0, 0, 0),
      MacroRow(0, 0 - 4, 8, 0),
      MacroRow(140, 12, 10, 1)>>

Worth(row) == Denoted[CHOOSE i \in 1..Len(MacroRows) : MacroRows[i] = row]

RECURSIVE SumField(_, _)
SumField(rows, f) ==
    IF rows = <<>> THEN 0 ELSE Worth(Head(rows))[f] + SumField(Tail(rows), f)

\* C19: calculateTotalMacros returns, for each of calories, protein, fat and
\* carbs, the sum of the field over the rows, a value that is not numeric or
\* is missing counted as 0; for no rows the four totals are 0.
C19_TotalsAreSums ==
    calc.fn = "calculateTotalMacros" =>
       /\ \A f \in MacroFields : calc.result[f] = SumField(calc.arg, f)
       /\ DOMAIN calc.result = MacroFields
       /\ calc.arg = <<>> => calc.result = ZeroMacros

\* C19: three rows, two of them with strings, null and missing fields
C19_Witness ==
    /\ calc.fn = "calculateTotalMacros"
    /\ calc.arg = <<MacroRows[1], MacroRows[2], MacroRows[3]>>
    /\ calc.result = MacroRow(162, 20, 12, 0)


(***************************************************************************)
(* Config.                                                                 *)
(***************************************************************************)
RECURSIVE DigitPrefix(_)
\* the longest run of decimal digits s starts with
DigitPrefix(s) ==
    IF s # <<>> /\ Head(s) \in DOMAIN DigitValue
    THEN <<Head(s)>> \o DigitPrefix(Tail(s)) ELSE <<>>

\* parseInt(string): leading white space is skipped, then a sign and the
\* longest run of digits are read; no digit gives NaN
parseInt(s) ==
    LET t == TrimLeft(s)
        signed == t # <<>> /\ Head(t) \in {"+", "-"}
        d == DigitPrefix(IF signed THEN Tail(t) ELSE t)
    IN  IF d = <<>> THEN NaN
        ELSE IF Head(t) = "-" THEN Num(0 - DigitsValue(d, 0))
        ELSE Num(DigitsValue(d, 0))

\* the settings with a number input
NumberSettings == {"weight", "targetCalories", "targetProtein", "targetCarbs"}

\* what a number input may hold: nothing, and 80.5
NumberTexts == {<<>>, <<"8", "0", ".", "5">>}

InventoryKeys == {"oven", "wok"}

ExcludedInputs == {"nuts"}

\* Config, a number input
setSettingsNumber(field, text) ==
    /\ Running
    /\ appState = CONFIG
    /\ edits < MaxEdits
    /\ Commit([State EXCEPT !.settings =
                  [settings EXCEPT ![field] = OrZero(parseInt(text))]],
              FALSE, TRUE)
    /\ lastOp' = Op("setSettings", settings[field] # OrZero(parseInt(text)),
                    <<field>>)
    /\ edits' = edits + 1
    /\ UNCHANGED <<analyzeCalls, refineCalls, calls, now>>

\* Config, the excluded ingredients
setExcludedIngredients(text) ==
    /\ Running
    /\ appState = CONFIG
    /\ edits < MaxEdits
    /\ Commit([State EXCEPT !.settings =
                  [settings EXCEPT !.excludedIngredients = text]],
              FALSE, TRUE)
    /\ lastOp' = Op("setSettings", settings.excludedIngredients # text,
                    <<"excludedIngredients">>)
    /\ edits' = edits + 1
    /\ UNCHANGED <<analyzeCalls, refineCalls, calls, now>>

\* Config, an inventory button
toggleInventory(key) ==
    /\ Running
    /\ appState = CONFIG
    /\ edits < MaxEdits
    /\ Commit([State EXCEPT !.settings =
                  [settings EXCEPT !.inventory[key] = ~settings.inventory[key]]],
              FALSE, TRUE)
    /\ lastOp' = Op("toggleInventory", settings.inventory[key], <<key>>)
    /\ edits' = edits + 1
    /\ UNCHANGED <<analyzeCalls, refineCalls, calls, now>>

(***************************************************************************)
(* The four slots: settings changed in Config, the week plan in the        *)
(* planner, the checked items in the shopping list, the cookbook in the    *)
(* detail view.                                                            *)
(***************************************************************************)
InitPersist == InitWith({EmptyStore, BowlStore}, {0})

NextPersist ==
    \/ MountEffects
    \/ RerenderSave
    \/ openConfig
    \/ closeConfig
    \/ \E f \in NumberSettings, t \in NumberTexts : setSettingsNumber(f, t)
    \/ \E t \in ExcludedInputs : setExcludedIngredients(t)
    \/ \E k \in InventoryKeys : toggleInventory(k)
    \/ openSelector(0)
    \/ Len(cookbook) > 0 /\ assignToDate(cookbook[1].id, "Carbs")
    \/ \E i \in PlannerRows : clearDate(DateStr(i))
    \/ openShoppingList
    \/ closeShoppingList
    \/ \E n \in 1..Len(ShoppingList) : toggleCheck(ShoppingList[n].id)
    \/ navCookbook
    \/ \E k \in 1..Len(cookbook) : selectRecipe(cookbook[k].id)
    \/ \E v \in TitleInputs : setCurrentTitle(v)
    \/ updateExistingRecipe

SpecPersist == InitPersist /\ [][NextPersist]_vars

\* C20: once the session runs, after every handler each of the four slots
\* holds the value of its collection in memory: the cookbook, the week plan,
\* the settings and the checked items.
C20_SlotsMirrorMemory ==
    Running =>
       /\ store.cookbook = <<cookbook>>
       /\ store.weekPlan = <<weekPlan>>
       /\ store.userSettings = <<settings>>
       /\ store.checkedItems = <<checkedItems>>

\* C20: a setting was changed, a recipe planned and an item checked
C20_Witness ==
    /\ Running
    /\ lastOp.op = "toggleCheck"
    /\ settings.weight = 80
    /\ settings.inventory.wok
    /\ weekPlan = <<DayPlan(Monday0, 2, "Carbs")>>
    /\ store.weekPlan = <<weekPlan>>
    /\ Len(checkedItems) = 1
    /\ store.checkedItems = <<checkedItems>>
    /\ store.userSettings = <<settings>>

(***************************************************************************)
(* The load (C21): what the mount makes of each store, and the planner     *)
(* used after it.                                                          *)
(***************************************************************************)
InitLoad == InitWith({EmptyStore, BowlStore, LegacyStore, MixedStore}, {0})

NextLoad ==
    \/ MountEffects
    \/ RerenderSave
    \/ openConfig
    \/ closeConfig
    \/ \E d \in {"prev", "next"} : changeWeek(d)
    \/ \E i \in PlannerRows : openSelector(i)
    \/ cancelSelector
    \/ \E i \in PlannerRows : clearDate(DateStr(i))

SpecLoad == InitLoad /\ [][NextLoad]_vars

\* C21: after the load of a persisted cookbook in which some entry lacks its
\* analysis, the cookbook in memory holds no entry without an analysis.
C21_LoadDropsIncompatible ==
    phase # "constructed" =>
       \A i \in 1..Len(cookbook) : cookbook[i].analysis # NoAnalysis

(***************************************************************************)
(* The ways between the screens (C22): bottom nav, header, selector,       *)
(* analysis calls that succeed and fail.                                   *)
(***************************************************************************)
InitNav == InitWith({EmptyStore, BowlStore}, {0})

NextNav ==
    \/ MountEffects
    \/ RerenderSave
    \/ navPlanner
    \/ navInput
    \/ navCookbook
    \/ openConfig
    \/ closeConfig
    \/ openShoppingList
    \/ closeShoppingList
    \/ \E i \in PlannerRows : openSelector(i)
    \/ cancelSelector
    \/ \E k \in 1..Len(cookbook), v \in Tabs : assignToDate(cookbook[k].id, v)
    \/ createRecipe
    \/ setTextInput("soup")
    \/ handleAnalyze
    \/ \E id \in analyzeCalls, r \in GatewayAnalyses : analyzeResolved(id, r)
    \/ \E id \in analyzeCalls, m \in AnalyzeErrors : analyzeRejected(id, m)
    \/ tryAgain
    \/ closeResults

SpecNav == InitNav /\ [][NextNav]_vars

InitSave == InitWith({EmptyStore, DanglingStore}, {0})

NextSave ==
    \/ MountEffects
    \/ RerenderSave
    \/ navInput
    \/ \E v \in TextInputs : setTextInput(v)
    \/ handleFileChange
    \/ calls.analyze = 0 /\ handleAnalyze
    \/ \E id \in analyzeCalls, r \in GatewayAnalyses : analyzeResolved(id, r)
    \/ \E t \in Tabs : setActiveTab(t)
    \/ \E v \in TitleInputs : setCurrentTitle(v)
    \/ \E t \in Readings(now) : saveNewRecipe(t)
    \/ backToList
    \/ \E k \in 1..Len(cookbook) : selectRecipe(cookbook[k].id)

SpecSave == InitSave /\ [][NextSave]_vars

\* C23: Add to Cookbook puts the new entry at the head of the cookbook, the
\* earlier entries after it as they were and in their order, empties the
\* text and the images of the input, and shows the Cookbook with the new
\* entry selected; without an analysis it changes nothing.
C23_SavePrepends ==
    [][lastOp'.op = "saveNewRecipe" =>
          IF analysis = NoAnalysis
          THEN UNCHANGED <<cookbook, textInput, selectedImages, appState,
                           selectedRecipeId, weekPlan, store>>
          ELSE /\ Len(cookbook') = Len(cookbook) + 1
               /\ Tail(cookbook') = cookbook
               /\ cookbook'[1] = NewRecipe(State, lastOp'.arg[1])
               /\ textInput' = ""
               /\ selectedImages' = <<>>
               /\ appState' = COOKBOOK
               /\ selectedRecipeId' = cookbook'[1].id
               /\ FindIdx(cookbook', selectedRecipeId') = 1]_vars

\* C23: an edited analysis was saved beside an earlier entry; what the input
\* had captured is gone
C23_Witness ==
    /\ lastOp.op = "saveNewRecipe"
    /\ Len(cookbook) = 2
    /\ cookbook[2] = SavedPorridge
    /\ cookbook[1].title = "My Bowl"
    /\ textInput = ""
    /\ selectedImages = <<>>
    /\ appState = COOKBOOK

(***************************************************************************)
(* Row edits and deletes (C24), under SpecRecipe.                          *)
(***************************************************************************)
\* the handlers that store the buffer or a gateway's answer
StoringOps ==
    {"saveNewRecipe", "updateExistingRecipe", "analyzeResolved",
     "refineResolved", "mount"}

\* C24: an ingredient edit changes the one field of the one row of the
\* buffer it is given and a delete removes the row at its position, the
\* other rows in their order; neither changes the analysis, the cookbook,
\* the week plan or what is persisted, and these change only with a handler
\* that saves or stores a gateway's answer.
C24_EditsTouchBufferOnly ==
    [][/\ lastOp'.op = "handleIngredientChange" =>
             LET i == lastOp'.arg[1]
                 f == lastOp'.arg[2]
                 v == lastOp'.arg[3]
             IN  /\ Len(currentIngredients') = Len(currentIngredients)
                 /\ \A j \in 1..Len(currentIngredients) :
                       j # i => currentIngredients'[j] = currentIngredients[j]
                 /\ currentIngredients'[i][f] = v
                 /\ \A g \in DOMAIN currentIngredients[i] :
                       g # f => currentIngredients'[i][g] = currentIngredients[i][g]
       /\ lastOp'.op = "handleRemoveIngredient" =>
             LET i == lastOp'.arg[1]
             IN  /\ Len(currentIngredients') = Len(currentIngredients) - 1
                 /\ \A j \in 1..(i - 1) :
                       currentIngredients'[j] = currentIngredients[j]
                 /\ \A j \in i..Len(currentIngredients') :
                       currentIngredients'[j] = currentIngredients[j + 1]
       /\ lastOp'.op \in {"handleIngredientChange", "handleRemoveIngredient"} =>
             UNCHANGED <<currentTitle, activeTab, appState, selectedRecipeId>>
       /\ lastOp'.op \notin StoringOps =>
             UNCHANGED <<analysis, cookbook, weekPlan>>
       /\ lastOp'.op \notin StoringOps \cup {"rerender"} =>
             UNCHANGED store]_vars

\* C24: the second of two rows was renamed, then the first was deleted
C24_Witness ==
    /\ lastOp.op = "handleRemoveIngredient"
    /\ lastOp.arg[1] = 1
    /\ edits = 2
    /\ Len(currentIngredients) = 1
    /\ currentIngredients[1].item = "Kale"
    /\ analysis # NoAnalysis
    /\ Len(analysis.variations[activeTab].ingredients) = 2

(***************************************************************************)
(* Calls that are answered (C25): the gateway settles every promise, with  *)
(* a result or with an error, while the user goes on.                      *)
(***************************************************************************)
CallIds == 1..(MaxAnalyze + MaxRefine)

\* the promise of analyze call id settles
AnswerAnalyze(id) ==
    \/ \E r \in GatewayAnalyses : analyzeResolved(id, r)
    \/ \E m \in AnalyzeErrors : analyzeRejected(id, m)

\* the promise of refine call id settles
AnswerRefine(id) ==
    \E c \in refineCalls :
       /\ c.id = id
       /\ \/ \E r \in GatewayAnalyses : refineResolved(c, r)
          \/ \E m \in RefineErrors : refineRejected(c, m)

InitLive == InitWith({EmptyStore}, {0})

NextLive ==
    \/ MountEffects
    \/ navInput
    \/ openConfig
    \/ setTextInput("soup")
    \/ handleAnalyze
    \/ \E id \in CallIds : AnswerAnalyze(id)
    \/ tryAgain
    \/ setRefineText("spicy")
    \/ handleRefine
    \/ \E id \in CallIds : AnswerRefine(id)

\* The gateway answers every call: while a call is in flight, one of the
\* calls in flight is answered.  (Calls are finitely many, so every call is.)
SpecLive ==
    /\ InitLive
    /\ [][NextLive]_vars
    /\ WF_vars(\E id \in CallIds : AnswerAnalyze(id))
    /\ WF_vars(\E id \in CallIds : AnswerRefine(id))

AnalyzeOutcome(id) ==
    /\ lastOp.op \in {"analyzeResolved", "analyzeRejected"}
    /\ lastOp.arg[1] = id

RefineOutcome(id) ==
    /\ lastOp.op \in {"refineResolved", "refineRejected"}
    /\ lastOp.arg[1] = id

\* C25: the gateway answering every call, an analyze call that was issued
\* gets its outcome, success or failure, and with it the view is Results or
\* Error; a call gets no second outcome (an outcome is that of a call in
\* flight, which it ends, and a call is in flight only from its issue on);
\* a refine call that was issued gets its outcome, and with it the refining
\* flag is cleared.
C25_CallsEnd ==
    /\ \A id \in CallIds :
          (id \in analyzeCalls) ~>
             (/\ AnalyzeOutcome(id)
              /\ id \notin analyzeCalls
              /\ appState \in {RESULTS, ERROR})
    /\ \A id \in CallIds :
          (\E c \in refineCalls : c.id = id) ~>
             (/\ RefineOutcome(id)
              /\ \A c \in refineCalls : c.id # id
              /\ ~isRefining)
    /\ [][\A id \in CallIds :
            /\ AnalyzeOutcome(id)' =>
                  id \in analyzeCalls /\ id \notin analyzeCalls'
            /\ id \in analyzeCalls' /\ id \notin analyzeCalls =>
                  lastOp'.op = "handleAnalyze" /\ id = NextCall
            /\ RefineOutcome(id)' =>
                  /\ \E c \in refineCalls : c.id = id
                  /\ \A c \in refineCalls' : c.id # id
            /\ (\E c \in refineCalls' : c.id = id)
                  /\ (\A c \in refineCalls : c.id # id) =>
                  lastOp'.op = "handleRefine" /\ id = NextCall]_vars

\* C25: two analyze calls and a refine call have had their outcomes, the
\* last of them a failure of the refinement
C25_Witness ==
    /\ lastOp.op = "refineRejected"
    /\ calls.analyze = 2
    /\ calls.refine = 1
    /\ analyzeCalls = {}
    /\ refineCalls = {}
    /\ ~isRefining

(***************************************************************************)
(* MacroChart (C26): the colours of the calorie total and of the two       *)
(* target lines.                                                           *)
(***************************************************************************)
\* (variant) the calories are good below the target only
isCaloriesGoodBelow(macros, targetCalories) == macros.calories < targetCalories

isCaloriesGood(macros, targetCalories) == macros.calories <= targetCalories

isProteinGood(macros, targetProtein) == macros.protein >= targetProtein

isCarbsGood(macros, targetCarbs) == macros.carbs >= targetCarbs

\* the class names the component renders the calorie total and the three
\* target lines with
MacroChart(props) ==
    [calorieTarget |->
        IF isCaloriesGood(props.macros, props.targetCalories)
        THEN "text-green-400" ELSE "text-slate-500",
     calories |->
        IF isCaloriesGood(props.macros, props.targetCalories)
        THEN "text-green-400" ELSE "text-slate-400",
     protein |->
        IF isProteinGood(props.macros, props.targetProtein)
        THEN "text-green-400" ELSE "text-slate-500",
     carbs |->
        IF isCarbsGood(props.macros, props.targetCarbs)
        THEN "text-green-400" ELSE "text-slate-500"]

\* totals and targets around the defaults, on them and off them by one
ChartInputs ==
    [macros : {MacroRow(c, p, 5, b) :
                   c \in {0, 330, 699, 700, 701}, p \in {0, 23, 39, 40, 41},
                   b \in {32, 49, 50, 51}},
     targetCalories : {DEFAULT_SETTINGS.targetCalories, 0},
     targetProtein : {DEFAULT_SETTINGS.targetProtein, 0},
     targetCarbs : {DEFAULT_SETTINGS.targetCarbs}]

\* The render of the component with the props it was given.
applyMacroChart ==
    /\ calc.fn = "none"
    /\ calc' = [fn |-> "MacroChart", arg |-> calc.arg,
                result |-> MacroChart(calc.arg)]
    /\ lastOp' = Op("MacroChart", FALSE, <<>>)
    /\ UNCHANGED <<phase, store, settings, appState, analysis, activeTab,
                   currentIngredients, currentTitle, isLoading, isRefining,
                   refineText, errorMsg, textInput, selectedImages, cookbook,
                   weekPlan, currentWeekStart, shoppingView, checkedItems,
                   selectedRecipeId, selectingForDate, tzOffset>>
    /\ Plain

InitChart ==
    /\ InitBase({EmptyStore}, {0})
    /\ \E props \in ChartInputs : calc = [fn |-> "none", arg |-> props]

NextChart == applyMacroChart

SpecChart == InitChart /\ [][NextChart]_vars

\* the colour of a number whose target is met
Met == "text-green-400"

\* C26: the calorie total renders as met exactly when the calories are at
\* most the calorie target, the protein and the carb target exactly when the
\* total is at least the target; with the default targets and the totals
\* (330, 23, 5, 32) the calories are met and both floors are missed.
C26_TargetsMet ==
    calc.fn = "MacroChart" =>
       LET p == calc.arg
           r == calc.result
       IN  /\ (r.calories = Met) = (p.macros.calories <= p.targetCalories)
           /\ (r.calorieTarget = Met) = (r.calories = Met)
           /\ (r.protein = Met) = (p.macros.protein >= p.targetProtein)
           /\ (r.carbs = Met) = (p.macros.carbs >= p.targetCarbs)
           /\ (/\ p.macros = MacroRow(330, 23, 5, 32)
               /\ p.targetCalories = 700
               /\ p.targetProtein = 40
               /\ p.targetCarbs = 50)
              => r.calories = Met /\ r.protein # Met /\ r.carbs # Met

\* C26: the totals (330, 23, 5, 32) rendered against the default targets
C26_Witness ==
    /\ calc.fn = "MacroChart"
    /\ calc.arg.macros = MacroRow(330, 23, 5, 32)
    /\ calc.arg.targetCalories = DEFAULT_SETTINGS.targetCalories
    /\ calc.arg.targetProtein = DEFAULT_SETTINGS.targetProtein
    /\ calc.arg.targetCarbs = DEFAULT_SETTINGS.targetCarbs
    /\ calc.result = [calories |-> "text-green-400",
                      calorieTarget |-> "text-green-400",
                      protein |-> "text-slate-500", carbs |-> "text-slate-500"]

(***************************************************************************)
(* The outcome of an analysis and the view (C27, C28), under SpecAnalyze.  *)
(***************************************************************************)
\* C27: the view becomes Results or Error only as the outcome of an analyze
\* call and only from Analyzing, and an analyze call is issued only from
\* Input with an image or text present.
C27_OutcomeFromAnalyzing ==
    [][/\ (appState' # appState /\ appState' \in {RESULTS, ERROR}) =>
             /\ lastOp'.op \in {"analyzeResolved", "analyzeRejected"}
             /\ appState = ANALYZING
       /\ lastOp'.op = "handleAnalyze" =>
             /\ appState = INPUT
             /\ textInput # "" \/ Len(selectedImages) > 0]_vars

\* C28: with two analyze calls in flight the answers are applied as they
\* arrive: each answer replaces the analysis and shows Results, so after
\* both the analysis is the answer that arrived last, whichever call was
\* issued first.
C28_LastResponseWins ==
    [][lastOp'.op = "analyzeResolved" =>
          /\ analysis' = lastOp'.arg[2]
          /\ appState' = RESULTS
          /\ analyzeCalls' = analyzeCalls \ {lastOp'.arg[1]}
          /\ (analyzeCalls' = {} /\ calls.analyze = 2) =>
                /\ analysis' = lastOp'.arg[2]
                /\ ~isLoading']_vars

\* C28: the call issued first was answered last, after the answer to the
\* second call (no call failed: no message is held), with another analysis
C28_Witness ==
    /\ lastOp.op = "analyzeResolved"
    /\ lastOp.arg[1] = 1
    /\ calls.analyze = 2
    /\ analyzeCalls = {}
    /\ errorMsg = NoMsg
    /\ analysis = PorridgeAnalysis
    /\ appState = RESULTS

(***************************************************************************)
(* What each screen has to show (C29), under SpecNav.                      *)
(***************************************************************************)
\* C29: in every state Results has an analysis, Error has a message and
\* the recipe selector has a pending date; so a selection in the selector
\* creates the DayPlan of the pending date.
C29_ScreensHaveTheirData ==
    [][/\ appState' = RESULTS => analysis' # NoAnalysis
       /\ appState' = ERROR => errorMsg' # NoMsg
       /\ appState' = RECIPE_SELECTOR => selectingForDate' # NoDate
       /\ lastOp'.op = "assignToDate" =>
             /\ selectingForDate # NoDate
             /\ \E i \in 1..Len(weekPlan') :
                   weekPlan'[i] = DayPlan(selectingForDate, lastOp'.arg[1],
                                          lastOp'.arg[2])]_vars

\* C29: the Error screen of a second call, the first still in flight, with
\* a date pending from the selector left by "create a recipe"
C29_Witness ==
    /\ appState = ERROR
    /\ errorMsg # NoMsg
    /\ calls.analyze = 2
    /\ analyzeCalls # {}
    /\ selectingForDate # NoDate

(***************************************************************************)
(* Plans and the entries they refer to (C30): from an empty store a recipe *)
(* is analysed, saved, planned, edited and refined.                        *)
(***************************************************************************)
InitRefs == InitWith({EmptyStore}, {0})

NextRefs ==
    \/ MountEffects
    \/ navPlanner
    \/ navInput
    \/ navCookbook
    \/ setTextInput("soup")
    \/ calls.analyze = 0 /\ handleAnalyze
    \/ \E id \in analyzeCalls : analyzeResolved(id, BowlAnalysis)
    \/ saveNewRecipe(now)
    \/ openSelector(0)
    \/ \E k \in 1..Len(cookbook), v \in Tabs : assignToDate(cookbook[k].id, v)
    \/ \E k \in 1..Len(cookbook) : selectRecipe(cookbook[k].id)
    \/ \E v \in TitleInputs : setCurrentTitle(v)
    \/ updateExistingRecipe
    \/ setRefineText("spicy")
    \/ handleRefine
    \/ \E c \in refineCalls, r \in GatewayAnalyses : refineResolved(c, r)

SpecRefs == InitRefs /\ [][NextRefs]_vars

Slots == {"cookbook", "weekPlan", "userSettings", "checkedItems"}

\* C31: during startup with previously persisted data no slot is written
\* with another value than its persisted one before that value is loaded
\* into memory: the effects of the first commit leave every slot that held
\* a value as it was, so a crash after them finds what was persisted.
C31_StartupKeepsSlots ==
    [][lastOp'.op = "mount" =>
          \A k \in Slots : store[k] # <<>> => store'[k] = store[k]]_vars

(***************************************************************************)
(* Overlapping refinements (C32): from the cookbook detail the instruction *)
(* is sent again, with Enter, while a refine call is in flight.            *)
(***************************************************************************)
InitOverlap == InitWith({BowlStore}, {0})

NextOverlap ==
    \/ MountEffects
    \/ RerenderSave
    \/ navCookbook
    \/ \E k \in 1..Len(cookbook) : selectRecipe(cookbook[k].id)
    \/ \E v \in RefineInputs : setRefineText(v)
    \/ handleRefineUpTo(MaxOverlap)
    \/ \E c \in refineCalls, r \in GatewayAnalyses : refineResolved(c, r)
    \/ \E c \in refineCalls, m \in RefineErrors : refineRejected(c, m)

SpecOverlap == InitOverlap /\ [][NextOverlap]_vars

\* C32: the refining flag is true in every state in which a refine call is
\* in flight and false in every state in which none is, a second call
\* issued before the first has ended included.
C32_FlagTracksCalls == isRefining <=> refineCalls # {}

(***************************************************************************)
(* The id of a shopping-list line as the string the template literal       *)
(* builds (C33).  A string is the sequence of its characters.  The model's *)
(* day 0 is Sunday 2023-12-31.                                             *)
(***************************************************************************)
DigitChars == <<"0", "1", "2", "3", "4", "5", "6", "7", "8", "9">>

RECURSIVE Digits(_)
\* String(n), n >= 0: the decimal digits, no leading zero
Digits(n) ==
    IF n < 10 THEN <<DigitChars[n + 1]>>
    ELSE Digits(n \div 10) \o <<DigitChars[(n % 10) + 1]>>

\* a field of toISOString(): n in two digits
Pad2(n) == <<DigitChars[(n \div 10) + 1], DigitChars[(n % 10) + 1]>>

\* the date key of day d as toISOString().split('T')[0] writes it, for the
\* days from 2023-12-01 to 2024-02-29
DateKey(d) ==
    IF d <= 0 THEN <<"2", "0", "2", "3", "-", "1", "2", "-">> \o Pad2(31 + d)
    ELSE IF d <= 31 THEN <<"2", "0", "2", "4", "-", "0", "1", "-">> \o Pad2(d)
    ELSE <<"2", "0", "2", "4", "-", "0", "2", "-">> \o Pad2(d - 31)

\* `${plan.date}-${recipe.id}-${idx}` of the id <<date, recipe id, idx>>
ItemIdText(id) ==
    DateKey(id[1]) \o <<"-">> \o Digits(id[2]) \o <<"-">> \o Digits(id[3])

\* The list with its check marks, plans made in the selector.
InitList == InitWith({BowlStore}, {0})

NextList ==
    \/ MountEffects
    \/ RerenderSave
    \/ openShoppingList
    \/ closeShoppingList
    \/ \E i \in PlannerRows : openSelector(i)
    \/ \E k \in 1..Len(cookbook), v \in Tabs : assignToDate(cookbook[k].id, v)
    \/ \E n \in 1..Len(ShoppingList) : toggleCheck(ShoppingList[n].id)

SpecList == InitList /\ [][NextList]_vars

\* the id strings the Set of checked items holds
CheckedTexts(checked) == {ItemIdText(c) : c \in Range(checked)}

\* the lines of the list shown as checked: checkedItems.has(entry.id)
ShownChecked(list, checked) ==
    LET texts == CheckedTexts(checked)
    IN  {n \in 1..Len(list) : ItemIdText(list[n].id) \in texts}

\* C33: the week plan holding at most one DayPlan per date, no two lines of
\* the computed shopping list bear the same id string, and a toggle of one
\* line changes the check mark shown on that line and on no other.
C33_ListIdsUnique ==
    [][(\A d \in {weekPlan'[i].date : i \in 1..Len(weekPlan')} :
           Cardinality(PlansFor(weekPlan', d)) <= 1)
       => LET L == ShoppingList
              after == AllIngredients(weekPlan', cookbook', currentWeekStart')
              ids == {after[n].id : n \in 1..Len(after)}
              texts == {ItemIdText(i) : i \in ids}
              was == ShownChecked(L, checkedItems)
              is == ShownChecked(L, checkedItems')
          IN  /\ Cardinality(texts) = Len(after)
              /\ lastOp'.op = "toggleCheck" =>
                    /\ after = L
                    /\ \E n \in 1..Len(L) :
                          /\ L[n].id = lastOp'.arg
                          /\ is = IF n \in was THEN was \ {n} ELSE was \cup {n}]_vars

\* C33: in a list of two planned recipes, four lines, one line was checked
\* and then another of the same recipe and date
C33_Witness ==
    /\ lastOp.op = "toggleCheck"
    /\ Len(weekPlan) = 2
    /\ Len(ShoppingList) = 4
    /\ Len(checkedItems) = 2
    /\ checkedItems[1][1] = checkedItems[2][1]
    /\ Cardinality(ShownChecked(ShoppingList, checkedItems)) = 2

(***************************************************************************)
(* The visible week in several timezones (C34): week navigation, the       *)
(* planner's rows and the shopping-list interval.                          *)
(***************************************************************************)
\* local timezones, hours east of UTC
Zones == {-10, -5, 0, 2}

InitWeek == InitWith({EmptyStore, BowlStore}, Zones)

NextWeek ==
    \/ MountEffects
    \/ RerenderSave
    \/ \E d \in {"prev", "next"} : changeWeek(d)
    \/ openShoppingList
    \/ closeShoppingList
    \/ \E i \in PlannerRows : openSelector(i)
    \/ cancelSelector
    \/ \E k \in 1..Len(cookbook), v \in Tabs : assignToDate(cookbook[k].id, v)

SpecWeek == InitWeek /\ [][NextWeek]_vars

\* the local calendar day of row i of the viewed week
RowDay(i) == LocalDay(addDays(currentWeekStart, i), tzOffset)

\* C34: the visible week is Monday-start in every local timezone: initially
\* and after every week navigation the seven date keys of the planner are
\* the calendar dates of Monday to Sunday of the viewed week, the
\* shopping-list interval runs from that Monday to that Sunday, and a week
\* navigation shifts the window by 7 days and changes no plan, cookbook or
\* check data.
C34_WeekIsMondayStart ==
    [][/\ RowDay(0)' % 7 = 1
       /\ \A i \in 0..6 : DateStr(i)' = RowDay(i)'
       /\ formatDate(currentWeekStart') = RowDay(0)'
       /\ formatDate(addDays(currentWeekStart', 6)) = RowDay(6)'
       /\ lastOp'.op = "changeWeek" =>
             /\ currentWeekStart' =
                   currentWeekStart + 24 * (IF lastOp'.arg[1] = "next" THEN 7 ELSE -7)
             /\ UNCHANGED <<weekPlan, cookbook, checkedItems>>]_vars

====
